---- MODULE Spec2Model ----
(***************************************************************************)
(* A model of the polymorpher file-mutation tools:                         *)
(*   - morpher/tools/search_and_replace.py : LineSearcher, OutputFormatter,*)
(*     SearchReplaceEngine, search_and_ask_replace                         *)
(*   - morpher/tools/write.py : FileProcessor, OutputFormatter,            *)
(*     WriteEngine, write_and_ask                                          *)
(*                                                                         *)
(* Text is a sequence of one-character strings, so that split, join,       *)
(* strip, lower and the line-ending normalisation are computed as the      *)
(* Python code computes them.                                              *)
(***************************************************************************)
EXTENDS Integers, Sequences, FiniteSets, TLC

VARIABLES
    \* ---- the matcher / renderer pipeline on one text
    content,      \* the text handed to LineSearcher.find_matches
    config,       \* the SearchReplaceConfig
    matches,      \* the result of find_matches(content)
    rendered,     \* the result of OutputFormatter.format_default
    rematches,    \* the result of find_matches(rendered)
    stage,        \* how far the pipeline has run
    \* ---- the tools working on storage
    fs,           \* the files: a function from the existing file paths to their bytes
    dirs,         \* the existing directories
    pc,           \* "idle", or "asking" inside the confirmation loop
    call,         \* the arguments of the running / last tool call
    result,       \* what the last call returned (or the preview, while asking)
    answer,       \* the last line read by input() in the confirmation loop
    fs0,          \* the files when the running / last call started
    dirs0,        \* the directories when the running / last call started
    nops,         \* the number of tool calls made
    \* ---- the ignore rules and the command executor
    ignore_file,  \* the .morpherignore file of the working directory
    ctl,          \* one IgnoreController instance: policy, _loaded, _patterns
    gcall,        \* the last operation on the controller, with what it returned
    first_rules,  \* the rules the controller held when it became loaded
    gsteps,       \* the number of operations called on the controller
    \* ---- the command executor
    xignore,      \* the .morpherignore file of the executor's working directory
    xcall,        \* the CommandConfig of the last CommandExecutor.run
    xresult,      \* the CommandResult it returned
    spawned,      \* the number of subprocesses spawned so far
    xruns,        \* the number of runs made
    \* ---- the tree of search results
    tpaths,       \* the paths handed to the last from_paths call
    tconcentrate, \* its concentrate argument
    troot,        \* the root of the tree it returned
    \* ---- the agent's tool-call boundary
    tool_funcs,   \* AgentMorpher.tool_funcs: the names of the registered tools
    messages,     \* AgentMorpher.messages
    tool_calls,   \* the tool calls handed to the last call_tool
    areturn,      \* how that call_tool ended
    apc,          \* where complete() stands: not called, between requests, ended
    requests,     \* the messages of each litellm.completion request made so far
    \* ---- the listing of the matches of one file
    lcall,        \* the file result, prefix and max_matches_per_file of the call
    listing       \* the text format_matches returned

mvars == <<content, config, matches, rendered, rematches, stage>>
svars == <<fs, dirs, pc, call, result, answer, fs0, dirs0, nops>>
gvars == <<ignore_file, ctl, gcall, first_rules, gsteps>>
xvars == <<xignore, xcall, xresult, spawned, xruns>>
tvars == <<tpaths, tconcentrate, troot>>
avars == <<tool_funcs, messages, tool_calls, areturn, apc, requests>>
lvars == <<lcall, listing>>
vars  == <<mvars, svars, gvars, xvars, tvars, avars, lvars>>

\* what the steps of one component leave alone
notM == <<svars, gvars, xvars, tvars, avars, lvars>>
notS == <<mvars, gvars, xvars, tvars, avars, lvars>>
notG == <<mvars, svars, xvars, tvars, avars, lvars>>
notX == <<mvars, svars, gvars, tvars, avars, lvars>>
notT == <<mvars, svars, gvars, xvars, avars, lvars>>
notA == <<mvars, svars, gvars, xvars, tvars, lvars>>
notL == <<mvars, svars, gvars, xvars, tvars, avars>>

(***************************************************************************)
(* Text helpers: Python's str methods.                                     *)
(***************************************************************************)
NL == "\n"
CR == "\r"
SP == " "

\* str.strip() with no argument removes leading and trailing whitespace.
IsSpace(c) == c \in {SP, NL, CR, "\t"}

RECURSIVE LStrip(_)
LStrip(s) ==
    IF s = <<>> THEN <<>>
    ELSE IF IsSpace(Head(s)) THEN LStrip(Tail(s)) ELSE s

RECURSIVE RStrip(_)
RStrip(s) ==
    IF s = <<>> THEN <<>>
    ELSE IF IsSpace(s[Len(s)]) THEN RStrip(SubSeq(s, 1, Len(s) - 1)) ELSE s

Strip(s) == RStrip(LStrip(s))

\* str.lower() on the letters of the model's alphabet.
LowerChar(c) ==
    CASE c = "A" -> "a"
      [] c = "B" -> "b"
      [] c = "C" -> "c"
      [] c = "E" -> "e"
      [] c = "N" -> "n"
      [] c = "O" -> "o"
      [] c = "S" -> "s"
      [] c = "Y" -> "y"
      [] OTHER   -> c

RECURSIVE Lower(_)
Lower(s) == IF s = <<>> THEN <<>> ELSE <<LowerChar(Head(s))>> \o Lower(Tail(s))

\* str.split('\n'): always at least one piece.
RECURSIVE Split(_)
Split(s) ==
    IF \A i \in 1..Len(s) : s[i] # NL THEN <<s>>
    ELSE LET k == CHOOSE i \in 1..Len(s) :
                      s[i] = NL /\ \A j \in 1..(i - 1) : s[j] # NL
         IN  <<SubSeq(s, 1, k - 1)>> \o Split(SubSeq(s, k + 1, Len(s)))

\* '\n'.join(lines)
RECURSIVE Join(_)
Join(lines) ==
    IF lines = <<>> THEN <<>>
    ELSE IF Len(lines) = 1 THEN lines[1]
    ELSE lines[1] \o <<NL>> \o Join(Tail(lines))

Min(a, b) == IF a < b THEN a ELSE b
Max(a, b) == IF a > b THEN a ELSE b

\* Python's lines[i:j] for 0 <= i (0-based, half open, clamped at the end).
Slice(lines, i, j) == SubSeq(lines, i + 1, Min(j, Len(lines)))

(***************************************************************************)
(* search_and_replace.py : SearchReplaceConfig                             *)
(* start_line / end_line: 0 stands for "not given" (None); the code tests  *)
(* them for truth, so None and 0 take the same branch.                     *)
(***************************************************************************)
SearchReplaceConfig(search, replace, case_sensitive, start_line, end_line) ==
    [search         |-> search,
     replace        |-> Split(replace),      \* __post_init__: replace.split('\n')
     case_sensitive |-> case_sensitive,
     start_line     |-> start_line,
     end_line       |-> end_line]

LineMatch(line_number, original_line, replacement_lines) ==
    [line_number       |-> line_number,
     original_line     |-> original_line,
     replacement_lines |-> replacement_lines]

(***************************************************************************)
(* search_and_replace.py : LineSearcher                                    *)
(***************************************************************************)
LineMatchesNoStrip(line, search, cfg) ==
    IF ~cfg.case_sensitive
    THEN Lower(search) = Lower(line)
    ELSE search = line

LineMatches(line, search, cfg) ==
    LET line_to_check   == Strip(line)
        search_to_check == Strip(search)
    IN  IF ~cfg.case_sensitive
        THEN Lower(search_to_check) = Lower(line_to_check)
        ELSE search_to_check = line_to_check

MultilineMatches(candidate_lines, search_lines, cfg) ==
    /\ Len(candidate_lines) = Len(search_lines)
    /\ \A k \in 1..Len(search_lines) :
           LineMatches(candidate_lines[k], search_lines[k], cfg)

\* for i in range(start_idx, end_idx + 1)
RECURSIVE SingleLineLoop(_, _, _, _)
SingleLineLoop(lines, cfg, i, end_idx) ==
    IF i > end_idx THEN <<>>
    ELSE (IF LineMatches(lines[i + 1], cfg.search, cfg)
          THEN <<LineMatch(i + 1, lines[i + 1], cfg.replace)>>
          ELSE <<>>)
         \o SingleLineLoop(lines, cfg, i + 1, end_idx)

FindSingleLineMatches(lines, cfg, start_idx, end_idx) ==
    SingleLineLoop(lines, cfg, start_idx, end_idx)

\* while i <= end_idx - search_line_count + 1
RECURSIVE MultilineLoopOverlapping(_, _, _, _, _)
MultilineLoopOverlapping(lines, search_lines, cfg, i, end_idx) ==
    LET n == Len(search_lines)
        candidate_lines == Slice(lines, i, i + n)
    IN  IF ~(i <= end_idx - n + 1) THEN <<>>
        ELSE IF Len(candidate_lines) = n
                /\ MultilineMatches(candidate_lines, search_lines, cfg)
        THEN <<LineMatch(i + 1, Join(candidate_lines), cfg.replace)>>
             \o MultilineLoopOverlapping(lines, search_lines, cfg, i + 1, end_idx)
        ELSE MultilineLoopOverlapping(lines, search_lines, cfg, i + 1, end_idx)

RECURSIVE MultilineLoop(_, _, _, _, _)
MultilineLoop(lines, search_lines, cfg, i, end_idx) ==
    LET n == Len(search_lines)
        candidate_lines == Slice(lines, i, i + n)
    IN  IF ~(i <= end_idx - n + 1) THEN <<>>
        ELSE IF Len(candidate_lines) = n
                /\ MultilineMatches(candidate_lines, search_lines, cfg)
        THEN <<LineMatch(i + 1, Join(candidate_lines), cfg.replace)>>
             \o MultilineLoop(lines, search_lines, cfg, i + n, end_idx)
        ELSE MultilineLoop(lines, search_lines, cfg, i + 1, end_idx)

\* a multi-line scan that runs to the last line whatever the window
FindMultilineMatchesToEnd(lines, search_lines, cfg, start_idx, end_idx) ==
    MultilineLoop(lines, search_lines, cfg, start_idx, Len(lines) - 1)

FindMultilineMatches(lines, search_lines, cfg, start_idx, end_idx) ==
    MultilineLoop(lines, search_lines, cfg, start_idx, end_idx)

FindMatches(text, cfg) ==
    LET lines        == Split(text)
        start_idx0   == IF cfg.start_line # 0 THEN cfg.start_line - 1 ELSE 0
        end_idx0     == IF cfg.end_line # 0 THEN cfg.end_line - 1 ELSE Len(lines) - 1
        start_idx    == Max(0, start_idx0)
        end_idx      == Min(Len(lines) - 1, end_idx0)
        search_lines == Split(cfg.search)
    IN  IF Len(search_lines) > 1
        THEN FindMultilineMatches(lines, search_lines, cfg, start_idx, end_idx)
        ELSE FindSingleLineMatches(lines, cfg, start_idx, end_idx)

(***************************************************************************)
(* search_and_replace.py : OutputFormatter.format_default                  *)
(* `text` is what open(file_path).read() returns.                          *)
(***************************************************************************)
\* lines[line_idx:line_idx + lines_to_replace] = replacement_lines
Splice(lines, line_idx, lines_to_replace, replacement_lines) ==
    Slice(lines, 0, line_idx) \o replacement_lines
        \o Slice(lines, line_idx + lines_to_replace, Len(lines))

\* a loop body that inserts the replacement and leaves the matched lines
SpliceMatchInsert(lines, match) ==
    LET line_idx == match.line_number - 1
    IN  IF 0 <= line_idx /\ line_idx < Len(lines)
        THEN Splice(lines, line_idx, 0, match.replacement_lines)
        ELSE lines

\* one pass of the loop body
SpliceMatch(lines, match) ==
    LET line_idx         == match.line_number - 1
        lines_to_replace == Len(Split(match.original_line))
    IN  IF 0 <= line_idx /\ line_idx < Len(lines)
        THEN Splice(lines, line_idx, lines_to_replace, match.replacement_lines)
        ELSE lines

\* for match in file_result.matches  (first to last: the order that breaks)
RECURSIVE SpliceForward(_, _)
SpliceForward(lines, ms) ==
    IF ms = <<>> THEN lines
    ELSE SpliceForward(SpliceMatch(lines, Head(ms)), Tail(ms))

\* for match in reversed(file_result.matches)
RECURSIVE SpliceReversed(_, _)
SpliceReversed(lines, ms) ==
    IF ms = <<>> THEN lines
    ELSE SpliceReversed(SpliceMatch(lines, ms[Len(ms)]), SubSeq(ms, 1, Len(ms) - 1))

FormatDefault(text, ms) ==
    IF ms = <<>> THEN text
    ELSE Join(SpliceReversed(Split(text), ms))

(***************************************************************************)
(* Storage: paths (pathlib.Path), files and directories.                   *)
(* A path is its parent directory, the stem of its name and the dot        *)
(* separated parts after the stem; "f.txt.backup" has exts                 *)
(* <<"txt", "backup">>.                                                     *)
(***************************************************************************)
Path(parent, stem, exts) == [parent |-> parent, stem |-> stem, exts |-> exts]

\* None / "" as an output path: both are false for `if output_file:`
NoPath == Path("", "", <<>>)

\* a directory directly under the working directory
Dir(name) == Path("", name, <<>>)

\* Path.parent
Parent(p) == Dir(p.parent)

\* str(path), as text
RECURSIVE ExtText(_)
ExtText(exts) == IF exts = <<>> THEN <<>> ELSE <<".", Head(exts)>> \o ExtText(Tail(exts))

PathText(p) == (IF p.parent = "" THEN <<>> ELSE <<p.parent, "/">>) \o <<p.stem>> \o ExtText(p.exts)

\* Path.with_suffix(s): the last suffix (if any) replaced by the parts of s
WithSuffix(p, newexts) ==
    Path(p.parent, p.stem,
         (IF p.exts = <<>> THEN <<>> ELSE SubSeq(p.exts, 1, Len(p.exts) - 1)) \o newexts)

\* Path.suffix, as a sequence of at most one part
Suffix(p) == IF p.exts = <<>> THEN <<>> ELSE <<p.exts[Len(p.exts)]>>

\* Path.exists() / is_file() / is_dir()
IsFile(files, p)        == p \in DOMAIN files
IsDir(ds, p)            == p \in ds
Exists(files, ds, p)    == IsFile(files, p) \/ IsDir(ds, p)

\* open(p, 'w').write(text); open(p, 'w') needs the parent directory
CanOpenForWrite(files, ds, p) == p # NoPath /\ Parent(p) \in ds /\ ~IsDir(ds, p)

Put(files, p, text) ==
    [q \in (DOMAIN files) \cup {p} |-> IF q = p THEN text ELSE files[q]]

\* content.replace('\r\n', '\n')
RECURSIVE ReplaceCRLF(_)
ReplaceCRLF(s) ==
    IF s = <<>> THEN <<>>
    ELSE IF Len(s) >= 2 /\ s[1] = CR /\ s[2] = NL
    THEN <<NL>> \o ReplaceCRLF(SubSeq(s, 3, Len(s)))
    ELSE <<Head(s)>> \o ReplaceCRLF(Tail(s))

\* content.replace('\r', '\n')
RECURSIVE ReplaceCR(_)
ReplaceCR(s) ==
    IF s = <<>> THEN <<>>
    ELSE <<IF Head(s) = CR THEN NL ELSE Head(s)>> \o ReplaceCR(Tail(s))

Normalize(s) == ReplaceCR(ReplaceCRLF(s))

\* open(p, 'r').read(): text mode translates "\r\n" and "\r" to "\n"
ReadText(files, p) == Normalize(files[p])

(***************************************************************************)
(* write.py : FileChange, FileResult, WriteResult                          *)
(***************************************************************************)
\* a FileResult; has_record is `change is not None`
WFileResult(file_path, has_record, original_content, new_content, operation, success, error_message, backup_path) ==
    [file_path        |-> file_path,
     has_record       |-> has_record,
     original_content |-> original_content,
     new_content      |-> new_content,
     operation        |-> operation,
     success          |-> success,
     error_message    |-> error_message,
     backup_path      |-> backup_path]

WriteResult(file_results) == [kind |-> "WriteResult", file_results |-> file_results]

\* FileResult.has_change
FileHasChange(fr) == fr.has_record /\ fr.original_content # fr.new_content

\* FileChange.is_new_file, evaluated against the files at the time of the access
IsNewFile(files, ds, fr) == ~Exists(files, ds, fr.file_path)

\* FileResult.operation_type, read while the storage is `files`, `ds`
OperationType(files, ds, fr) ==
    IF ~fr.has_record THEN "no_change"
    ELSE IF IsNewFile(files, ds, fr) THEN "created"
    ELSE CASE fr.operation = "overwrite" -> "overwritten"
           [] fr.operation = "append"    -> "appended"
           [] fr.operation = "prepend"   -> "prepended"
           [] OTHER                      -> "modified"

\* WriteResult.total_files_created, read while the storage is `files`, `ds`
TotalFilesCreated(files, ds, r) ==
    Cardinality({ i \in 1..Len(r.file_results) :
                      /\ r.file_results[i].has_record
                      /\ IsNewFile(files, ds, r.file_results[i]) })

\* WriteResult.total_files_changed
TotalFilesChanged(r) ==
    Cardinality({ i \in 1..Len(r.file_results) : FileHasChange(r.file_results[i]) })

(***************************************************************************)
(* write.py : FileProcessor                                                *)
(***************************************************************************)
\* _read_file_safely
ReadFileSafely(files, ds, p) == IF IsFile(files, p) THEN ReadText(files, p) ELSE <<>>

EndsWithNL(s) == s # <<>> /\ s[Len(s)] = NL

\* a _prepare_content whose "create" does not look at the path
PrepareContentNoCheck(files, ds, a, original_content) ==
    LET text == Normalize(a.content)
    IN  CASE a.operation \in {"create", "overwrite"} -> [raised |-> FALSE, text |-> text]
          [] a.operation = "append" ->
                 [raised |-> FALSE, text |-> original_content \o text]
          [] a.operation = "prepend" ->
                 [raised |-> FALSE, text |-> text \o original_content]

\* a _prepare_content that puts a line break between the two parts every time
PrepareContentAlwaysBreak(files, ds, a, original_content) ==
    LET text == Normalize(a.content)
    IN  CASE a.operation = "create" ->
                 IF Exists(files, ds, a.file_path)
                 THEN [raised |-> TRUE, text |-> <<>>]
                 ELSE [raised |-> FALSE, text |-> text]
          [] a.operation = "overwrite" -> [raised |-> FALSE, text |-> text]
          [] a.operation = "append" ->
                 [raised |-> FALSE, text |-> original_content \o <<NL>> \o text]
          [] a.operation = "prepend" ->
                 [raised |-> FALSE, text |-> text \o <<NL>> \o original_content]

\* _prepare_content; [raised |-> TRUE] is the FileExistsError
PrepareContent(files, ds, a, original_content) ==
    LET text == Normalize(a.content)        \* WriteConfig.__post_init__
    IN  CASE a.operation = "create" ->
                 IF Exists(files, ds, a.file_path)
                 THEN [raised |-> TRUE, text |-> <<>>]
                 ELSE [raised |-> FALSE, text |-> text]
          [] a.operation = "overwrite" -> [raised |-> FALSE, text |-> text]
          [] a.operation = "append" ->
                 [raised |-> FALSE,
                  text   |-> IF original_content # <<>> /\ ~EndsWithNL(original_content)
                             THEN original_content \o <<NL>> \o text
                             ELSE original_content \o text]
          [] a.operation = "prepend" ->
                 [raised |-> FALSE,
                  text   |-> IF text # <<>> /\ ~EndsWithNL(text)
                             THEN text \o <<NL>> \o original_content
                             ELSE text \o original_content]

(***************************************************************************)
(* write.py : OutputFormatter                                              *)
(***************************************************************************)
RECURSIVE PrefixLines(_, _)
PrefixLines(prefix, lines) ==
    IF lines = <<>> THEN <<>>
    ELSE <<(<<prefix>> \o Head(lines))>> \o PrefixLines(prefix, Tail(lines))

WFormatDefault(fr) ==
    IF ~FileHasChange(fr)
    THEN (IF fr.has_record THEN fr.original_content ELSE <<>>)
    ELSE fr.new_content

\* difflib.unified_diff(original_lines, new_lines, n=3, lineterm='') without its
\* two header lines.  The library's hunk computation is kept abstract: one hunk
\* that removes every original line and adds every new line.
UnifiedDiffBody(original_lines, new_lines) ==
    << <<"@@ -1,", ToString(Len(original_lines)), " +1,",
         ToString(Len(new_lines)), " @@">> >>
        \o PrefixLines("-", original_lines) \o PrefixLines("+", new_lines)

WFormatGitDiff(files, ds, fr) ==
    IF ~FileHasChange(fr) THEN <<>>
    ELSE LET pt == PathText(fr.file_path)
             new_lines == Split(fr.new_content)
             original_lines == Split(fr.original_content)
         IN  IF IsNewFile(files, ds, fr)
             THEN Join(<< <<"diff --git a/">> \o pt \o <<" b/">> \o pt,
                          <<"new file mode 100644">>,
                          <<"index 0000000..1111111">>,
                          <<"--- /dev/null">>,
                          <<"+++ b/">> \o pt,
                          <<"@@ -0,0 +1,", ToString(Len(new_lines)), " @@">> >>
                       \o PrefixLines("+", new_lines))
             ELSE Join(<< <<"diff --git a/">> \o pt \o <<" b/">> \o pt,
                          <<"index 0000000..1111111 100644">>,
                          <<"--- a/">> \o pt,
                          <<"+++ b/">> \o pt >>
                       \o UnifiedDiffBody(original_lines, new_lines))

WFormatGitConflict(files, ds, fr) ==
    IF ~FileHasChange(fr)
    THEN (IF fr.has_record THEN fr.original_content ELSE <<>>)
    ELSE IF IsNewFile(files, ds, fr) THEN fr.new_content
    ELSE Join(<< <<"<<<<<<< HEAD">>, fr.original_content, <<"=======">>,
                 fr.new_content, <<">>>>>>> incoming">> >>)

WFormat(files, ds, style, fr) ==
    CASE style = "default"      -> WFormatDefault(fr)
      [] style = "git_diff"     -> WFormatGitDiff(files, ds, fr)
      [] style = "git_conflict" -> WFormatGitConflict(files, ds, fr)

(***************************************************************************)
(* write.py : WriteEngine                                                  *)
(* An outcome is the storage after the call and the value returned.        *)
(***************************************************************************)
Outcome(files, ds, r) == [fs |-> files, dirs |-> ds, result |-> r]

\* _is_content_identical
IsContentIdentical(files, ds, file_path, text, operation) ==
    /\ operation = "overwrite"
    /\ Exists(files, ds, file_path)
    /\ IsFile(files, file_path)      \* open() of a directory raises: return False
    /\ Strip(Normalize(ReadText(files, file_path))) = Strip(Normalize(text))

\* the path _create_backup picks: .backup, then .backup.1, .backup.2, ...
RECURSIVE BackupPathFrom(_, _, _, _)
BackupPathFrom(files, ds, file_path, counter) ==
    LET backup_path == WithSuffix(file_path, Suffix(file_path)
                           \o (IF counter = 0 THEN <<"backup">>
                               ELSE <<"backup", ToString(counter)>>))
    IN  IF Exists(files, ds, backup_path)
        THEN BackupPathFrom(files, ds, file_path, counter + 1)
        ELSE backup_path

BackupPath(files, ds, file_path) == BackupPathFrom(files, ds, file_path, 0)

\* _create_backup: shutil.copy2 copies the bytes
CreateBackup(files, ds, file_path) ==
    LET backup_path == BackupPath(files, ds, file_path)
    IN  [files |-> Put(files, backup_path, files[file_path]), backup_path |-> backup_path]

\* _handle_apply with the backup taken after the write
WHandleApplyBackupLate(files, ds, a, fr) ==
    IF ~FileHasChange(fr)
    THEN Outcome(files, ds, WriteResult(<<[fr EXCEPT !.success = TRUE]>>))
    ELSE
    LET target_path == IF a.output_file # NoPath THEN a.output_file ELSE a.file_path
        do_backup   == /\ a.backup
                       /\ Exists(files, ds, target_path)
                       /\ target_path = a.file_path
                       /\ a.output_style = "default"
        text        == WFormat(files, ds, a.output_style, fr)
        ds2         == IF a.create_dirs THEN ds \cup {Parent(target_path)} ELSE ds
        files2      == Put(files, target_path, text)
        bk          == CreateBackup(files2, ds2, target_path)
    IN  IF CanOpenForWrite(files, ds2, target_path)
        THEN Outcome(IF do_backup THEN bk.files ELSE files2, ds2,
                     WriteResult(<<[fr EXCEPT !.success = TRUE,
                                     !.backup_path = IF do_backup THEN bk.backup_path ELSE NoPath]>>))
        ELSE Outcome(files, ds2,
                     WriteResult(<<[fr EXCEPT !.success = FALSE,
                                     !.error_message = "No such file or directory"]>>))

\* _handle_apply
WHandleApply(files, ds, a, fr) ==
    IF ~FileHasChange(fr)
    THEN Outcome(files, ds, WriteResult(<<[fr EXCEPT !.success = TRUE]>>))
    ELSE
    LET target_path == IF a.output_file # NoPath THEN a.output_file ELSE a.file_path
        do_backup   == /\ a.backup
                       /\ Exists(files, ds, target_path)
                       /\ target_path = a.file_path
                       /\ a.output_style = "default"
        bk          == CreateBackup(files, ds, target_path)
        files1      == IF do_backup THEN bk.files ELSE files
        fr1         == IF do_backup THEN [fr EXCEPT !.backup_path = bk.backup_path] ELSE fr
        text        == WFormat(files1, ds, a.output_style, fr1)
        \* target_path.parent.mkdir(parents=True, exist_ok=True)
        ds2         == IF a.create_dirs THEN ds \cup {Parent(target_path)} ELSE ds
    IN  IF CanOpenForWrite(files1, ds2, target_path)
        THEN Outcome(Put(files1, target_path, text), ds2,
                     WriteResult(<<[fr1 EXCEPT !.success = TRUE]>>))
        ELSE \* open() raised: caught, reported on the file result
             Outcome(files1, ds2,
                     WriteResult(<<[fr1 EXCEPT !.success = FALSE,
                                      !.error_message = "No such file or directory"]>>))

\* a preview that goes on to write
WHandlePreviewWrites(files, ds, a, fr) == WHandleApply(files, ds, a, fr)

\* _handle_preview: prints
WHandlePreview(files, ds, a, fr) == Outcome(files, ds, WriteResult(<<fr>>))

\* a write_file without the identical-content test that never reads the file
\* it is about to replace
WriteEngineWriteFileBlind(files, ds, a) ==
    LET prepared == PrepareContent(files, ds, a, <<>>)
        fr == WFileResult(a.file_path, TRUE, <<>>, prepared.text, a.operation,
                          FALSE, "", NoPath)
    IN  IF prepared.raised
        THEN Outcome(files, ds, WriteResult(<<WFileResult(a.file_path, FALSE, <<>>, <<>>, "",
                                              FALSE, "already exists", NoPath)>>))
        ELSE IF a.mode = "preview"
        THEN WHandlePreview(files, ds, a, fr)
        ELSE WHandleApply(files, ds, a, fr)

\* WriteEngine.write_file, mode "preview" or "apply".  The safety validators only
\* print warnings.
WriteEngineWriteFile(files, ds, a) ==
    IF IsContentIdentical(files, ds, a.file_path, a.content, a.operation)
    THEN Outcome(files, ds, WriteResult(<<>>))
    ELSE
    LET original_content == ReadFileSafely(files, ds, a.file_path)
        prepared == PrepareContent(files, ds, a, original_content)
        fr == WFileResult(a.file_path, TRUE, original_content, prepared.text,
                          a.operation, FALSE, "", NoPath)
    IN  IF prepared.raised
        THEN \* except Exception as e: a file result without a change
             Outcome(files, ds,
                     WriteResult(<<WFileResult(a.file_path, FALSE, <<>>, <<>>, "",
                                               FALSE, "already exists", NoPath)>>))
        ELSE IF a.mode = "preview"
        THEN WHandlePreview(files, ds, a, fr)
        ELSE WHandleApply(files, ds, a, fr)

(***************************************************************************)
(* search_and_replace.py : OutputFormatter (default: FormatDefault above)  *)
(***************************************************************************)
RFileResult(file_path, ms) == [file_path |-> file_path, matches |-> ms]

SearchReplaceResult(file_results) ==
    [kind |-> "SearchReplaceResult", file_results |-> file_results]

\* SearchReplaceResult.total_matches
RECURSIVE TotalMatches(_)
TotalMatches(frs) ==
    IF frs = <<>> THEN 0 ELSE Len(Head(frs).matches) + TotalMatches(Tail(frs))

\* format_default: reads the file again; `except: return ""`
RFormatDefault(files, fr) ==
    IF ~IsFile(files, fr.file_path) THEN <<>>
    ELSE FormatDefault(ReadText(files, fr.file_path), fr.matches)

RECURSIVE DiffHunks(_)
DiffHunks(ms) ==
    IF ms = <<>> THEN <<>>
    ELSE LET m == Head(ms)
         IN  << <<"@@ -", ToString(m.line_number), ",1 +", ToString(m.line_number),
                  ",", ToString(Len(m.replacement_lines)), " @@">>,
                <<"-">> \o m.original_line >>
             \o PrefixLines("+", m.replacement_lines)
             \o DiffHunks(Tail(ms))

\* format_git_diff
RFormatGitDiff(fr) ==
    IF fr.matches = <<>> THEN <<>>
    ELSE LET pt == PathText(fr.file_path)
         IN  Join(<< <<"diff --git a/">> \o pt \o <<" b/">> \o pt,
                     <<"index 0000000..0000000 100644">>,
                     <<"--- a/">> \o pt,
                     <<"+++ b/">> \o pt >>
                  \o DiffHunks(fr.matches))

ConflictMatch(lines, match) ==
    LET line_idx         == match.line_number - 1
        original_lines   == Split(match.original_line)
        lines_to_replace == Len(original_lines)
        conflict_block   == << <<"<<<<<<< HEAD">> >> \o original_lines
                                \o << <<"=======">> >> \o match.replacement_lines
                                \o << <<">>>>>>> incoming">> >>
    IN  IF 0 <= line_idx /\ line_idx < Len(lines)
        THEN Splice(lines, line_idx, lines_to_replace, conflict_block)
        ELSE lines

RECURSIVE ConflictReversed(_, _)
ConflictReversed(lines, ms) ==
    IF ms = <<>> THEN lines
    ELSE ConflictReversed(ConflictMatch(lines, ms[Len(ms)]), SubSeq(ms, 1, Len(ms) - 1))

\* format_git_conflict
RFormatGitConflict(files, fr) ==
    IF fr.matches = <<>> THEN RFormatDefault(files, fr)
    ELSE IF ~IsFile(files, fr.file_path) THEN <<>>
    ELSE Join(ConflictReversed(Split(ReadText(files, fr.file_path)), fr.matches))

RFormat(files, style, fr) ==
    CASE style = "default"      -> RFormatDefault(files, fr)
      [] style = "git_diff"     -> RFormatGitDiff(fr)
      [] style = "git_conflict" -> RFormatGitConflict(files, fr)

(***************************************************************************)
(* search_and_replace.py : SearchReplaceEngine                             *)
(***************************************************************************)
\* _is_search_replace_identical
IsSearchReplaceIdentical(search, replace) == Strip(search) = Strip(replace)

\* the files Path.rglob("*") yields under a directory
FilesUnder(files, d) == { p \in DOMAIN files : p.parent = d.stem }

\* the file results of the read-and-match loop, in the order the files come
RECURSIVE SearchFiles(_, _, _)
SearchFiles(files, cfg, paths) ==
    IF paths = <<>> THEN <<>>
    ELSE <<RFileResult(Head(paths), FindMatches(ReadText(files, Head(paths)), cfg))>>
         \o SearchFiles(files, cfg, Tail(paths))

\* _handle_preview: prints
RHandlePreview(files, ds, a, frs) == files

\* a _handle_apply that writes for the files without a match as well
RECURSIVE RHandleApplyAll(_, _, _, _)
RHandleApplyAll(files, ds, a, frs) ==
    IF frs = <<>> THEN files
    ELSE LET fr == Head(frs)
             out == IF a.output_file # NoPath THEN a.output_file ELSE fr.file_path
             text == RFormat(files, a.output_style, fr)
             target_path == IF a.output_style = "git_diff"
                            THEN WithSuffix(out, <<"diff">>) ELSE out
         IN  IF CanOpenForWrite(files, ds, target_path)
             THEN RHandleApplyAll(Put(files, target_path, text), ds, a, Tail(frs))
             ELSE RHandleApplyAll(files, ds, a, Tail(frs))

\* _handle_apply: one file after the other, each rendering read from the files
\* as they are at that moment
RECURSIVE RHandleApply(_, _, _, _)
RHandleApply(files, ds, a, frs) ==
    IF frs = <<>> THEN files
    ELSE LET fr == Head(frs)
             out == IF a.output_file # NoPath THEN a.output_file ELSE fr.file_path
             text == RFormat(files, a.output_style, fr)
             target_path == IF a.output_style = "git_diff"
                            THEN WithSuffix(out, <<"diff">>) ELSE out
         IN  IF fr.matches = <<>> THEN RHandleApply(files, ds, a, Tail(frs))
             ELSE IF CanOpenForWrite(files, ds, target_path)
             THEN RHandleApply(Put(files, target_path, text), ds, a, Tail(frs))
             ELSE RHandleApply(files, ds, a, Tail(frs))   \* "Error writing to ..."

Raised(error) == [kind |-> "raised", error |-> error]

\* SearchReplaceEngine.search_and_replace, mode "preview" or "apply";
\* `found` is what _find_files returns for a directory, in rglob's order
SearchReplaceEngineRun(files, ds, a, found) ==
    LET cfg == SearchReplaceConfig(a.search, a.replace, a.case_sensitive,
                                   a.start_line, a.end_line)
        paths == IF IsFile(files, a.file) THEN <<a.file>> ELSE found
        frs == SearchFiles(files, cfg, paths)
    IN  IF IsSearchReplaceIdentical(a.search, a.replace)
        THEN Outcome(files, ds, SearchReplaceResult(<<>>))
        ELSE IF ~IsFile(files, a.file) /\ ~IsDir(ds, a.file)
        THEN Outcome(files, ds, Raised("FileNotFoundError"))
        ELSE IF a.mode = "preview"
        THEN Outcome(RHandlePreview(files, ds, a, frs), ds, SearchReplaceResult(frs))
        ELSE Outcome(RHandleApply(files, ds, a, frs), ds, SearchReplaceResult(frs))

(***************************************************************************)
(* The confirmation loops of write_and_ask and search_and_ask_replace.     *)
(***************************************************************************)
Line(text) == [kind |-> "line", text |-> text]
KeyboardInterrupt == [kind |-> "KeyboardInterrupt", text |-> <<>>]
EOFError == [kind |-> "EOFError", text |-> <<>>]
NoAnswer == [kind |-> "none", text |-> <<>>]

YesWords == { <<"y">>, <<"y", "e", "s">>, <<"t", "r", "u", "e">>,
              <<"a", "p", "p", "l", "y">> }
NoWords  == { <<"n">>, <<"n", "o">>, <<"f", "a", "l", "s", "e">>,
              <<"c", "a", "n", "c", "e", "l">> }

Message(text) == [kind |-> "message", text |-> text]

\* a loop that applies on anything but an explicit "no"
WAskDecisionLenient(ans) ==
    IF ans.kind # "line" THEN "cancel"
    ELSE IF Lower(Strip(ans.text)) \in NoWords THEN "cancel" ELSE "apply"

\* write_and_ask: what one answer leads to
WAskDecision(ans) ==
    IF ans.kind # "line" THEN "cancel"
    ELSE LET permission == Strip(ans.text)
         IN  IF Lower(permission) \in YesWords THEN "apply"
             ELSE IF Lower(permission) \in NoWords THEN "cancel"
             ELSE "again"

\* search_and_ask_replace: what one answer leads to
RAskDecision(ans) ==
    IF ans.kind # "line" THEN "cancel"
    ELSE LET permission == Strip(ans.text)
         IN  IF Lower(permission) \in YesWords THEN "apply"
             ELSE IF Lower(permission) \in NoWords THEN "cancel"
             ELSE "again"

CancelMessage(ans) ==
    CASE ans.kind = "line"              -> Message("Changes cancelled by user.")
      [] ans.kind = "KeyboardInterrupt" -> Message("Operation cancelled by user (Ctrl+C).")
      [] ans.kind = "EOFError"          -> Message("Operation cancelled (EOF).")

(***************************************************************************)
(* Inputs of the matcher pipeline.                                         *)
(***************************************************************************)
MaxLines == 3

\* the lines a text is made of
LineSet == { <<"a">>, <<"b">>, <<SP, "A">>, <<>> }

RECURSIVE LinesUpTo(_)
LinesUpTo(n) ==
    IF n = 0 THEN { <<>> }
    ELSE LET shorter == LinesUpTo(n - 1)
         IN  shorter \cup { <<l>> \o ls : l \in LineSet,
                                          ls \in { x \in shorter : Len(x) = n - 1 } }

ExampleABAB == Join(<< <<"a">>, <<"b">>, <<"a">>, <<"b">> >>)
ExampleABAC == Join(<< <<"a">>, <<"b">>, <<"a">>, <<"c">> >>)

Contents ==
    { Join(ls) : ls \in { x \in LinesUpTo(MaxLines) : x # <<>> } }
        \cup { ExampleABAB, ExampleABAC }

SearchTexts ==
    { <<"a">>, <<"A", SP>>, <<"a", NL, "b">>, <<"a", NL, SP, "a">>, <<>>,
      <<"b", NL>> }

ReplaceTexts ==
    { <<>>, <<"b">>, <<"c", NL, "c">>, <<"a", NL, "b">>, <<"A">>, <<"c">> }

\* <<start_line, end_line>>, 0 = not given
LineRanges == { <<0, 0>>, <<2, 0>>, <<0, 2>>, <<0, 3>>, <<2, 3>>, <<3, 2>>, <<5, 0>> }

MInit ==
    /\ content \in Contents
    /\ \E s \in SearchTexts, r \in ReplaceTexts, cs \in BOOLEAN, lr \in LineRanges :
           config = SearchReplaceConfig(s, r, cs, lr[1], lr[2])
    /\ matches = <<>>
    /\ rendered = <<>>
    /\ rematches = <<>>
    /\ stage = "input"

\* searcher.find_matches(content)
FindMatchesStep ==
    /\ stage = "input"
    /\ matches' = FindMatches(content, config)
    /\ stage' = "found"
    /\ UNCHANGED <<content, config, rendered, rematches>>
    /\ UNCHANGED notM

\* formatter.format_default(file_result), the file holding `content`
FormatDefaultStep ==
    /\ stage = "found"
    /\ rendered' = FormatDefault(content, matches)
    /\ stage' = "rendered"
    /\ UNCHANGED <<content, config, matches, rematches>>
    /\ UNCHANGED notM

\* find_matches on the rendered output, same search spec
RefindStep ==
    /\ stage = "rendered"
    /\ rematches' = FindMatches(rendered, config)
    /\ stage' = "refound"
    /\ UNCHANGED <<content, config, matches, rendered>>
    /\ UNCHANGED notM

MNext == FindMatchesStep \/ FormatDefaultStep \/ RefindStep


(***************************************************************************)
(* The tool calls made against storage, and the disks they start from.     *)
(***************************************************************************)
MaxOps == 1

TargetFile == Path("d", "f", <<"txt">>)
OtherFile  == Path("d", "g", <<"txt">>)
OutFile    == Path("d", "out", <<"txt">>)
DiffFile   == Path("d", "f", <<"diff">>)
WorkDir    == Dir("d")

EmptyFs == [p \in {} |-> <<>>]

\* the disks a run starts from: <<files, directories>>
Disks ==
    { <<EmptyFs, {}>>,
      <<Put(EmptyFs, TargetFile, <<"a", NL>>), {WorkDir}>>,
      <<Put(Put(EmptyFs, TargetFile, <<"a", CR, NL, "b">>),
            WithSuffix(TargetFile, <<"txt", "backup">>), <<"b">>), {WorkDir}>>,
      <<Put(Put(Put(EmptyFs, TargetFile, <<"b", NL>>),
                WithSuffix(TargetFile, <<"txt", "backup">>), <<"a">>),
            WithSuffix(TargetFile, <<"txt", "backup", "1">>), <<"a", NL>>), {WorkDir}>>,
      <<Put(Put(EmptyFs, TargetFile, <<"a", NL, "b", NL, "a">>),
            OtherFile, <<"b">>), {WorkDir}>>,
      <<Put(EmptyFs, DiffFile, <<"a">>), {WorkDir}>>,
      <<Put(Put(EmptyFs, TargetFile, <<"a">>), DiffFile, <<"b">>), {WorkDir}>> }

Modes  == {"preview", "apply", "preview_and_ask"}
Styles == {"default", "git_diff", "git_conflict"}
WriteOperations == {"create", "overwrite", "append", "prepend"}

WriteContents == { <<>>, <<"a">>, <<"b", CR, NL>> }

WriteCall(c, m, st, op, o, backup, create_dirs) ==
    [tool |-> "write", file_path |-> TargetFile, content |-> c, mode |-> m,
     output_style |-> st, operation |-> op, output_file |-> o,
     backup |-> backup, create_dirs |-> create_dirs]

\* every content, mode, style and operation with the default options; an output
\* file, backup=False and create_dirs=False with fewer contents and operations
WriteCalls ==
    { WriteCall(c, m, st, op, NoPath, TRUE, TRUE) :
      c \in WriteContents, m \in Modes, st \in Styles, op \in WriteOperations }
    \cup
    { WriteCall(c, m, st, op, opt[1], opt[2], opt[3]) :
      c \in { <<"a">>, <<"b", CR, NL>> }, m \in Modes, st \in Styles,
      op \in {"create", "overwrite"},
      opt \in { <<OutFile, TRUE, TRUE>>, <<NoPath, FALSE, TRUE>>,
                <<NoPath, TRUE, FALSE>> } }

ReplaceCall(f, s, r, m, st, o) ==
    [tool |-> "replace", file |-> f, search |-> s, replace |-> r, mode |-> m,
     output_style |-> st, output_file |-> o, case_sensitive |-> TRUE,
     start_line |-> 0, end_line |-> 0]

\* <<search, replace>>
ReplacePairs ==
    { << <<"a">>, <<"b">> >>, << <<"a", NL, "b">>, <<"c">> >>,
      << <<"a">>, <<"a", SP>> >> }

ReplaceCalls ==
    { ReplaceCall(f, sr[1], sr[2], m, st, NoPath) :
      f \in {TargetFile, WorkDir}, sr \in ReplacePairs, m \in Modes, st \in Styles }
    \cup
    { ReplaceCall(f, <<"a">>, <<>>, m, st, OutFile) :
      f \in {TargetFile, WorkDir}, m \in Modes, st \in Styles }

Answers ==
    { Line(<<"y">>), Line(<<SP, "Y", "E", "S">>), Line(<<"N", "O", SP>>),
      Line(<<"x">>), KeyboardInterrupt, EOFError }

RECURSIVE Perms(_)
Perms(S) ==
    IF S = {} THEN { <<>> }
    ELSE UNION { { <<x>> \o p : p \in Perms(S \ {x}) } : x \in S }

RECURSIVE SeqOf(_)
SeqOf(S) ==
    IF S = {} THEN <<>>
    ELSE LET x == CHOOSE y \in S : TRUE IN <<x>> \o SeqOf(S \ {x})

\* The orders in which rglob may yield the files of a directory target.  Files
\* without a match have no effect in the loops that follow, so only the order of
\* the files with a match is varied; the others come after them.
FoundOrders(files, ds, a) ==
    IF IsFile(files, a.file) \/ ~IsDir(ds, a.file) THEN { <<>> }
    ELSE LET cfg == SearchReplaceConfig(a.search, a.replace, a.case_sensitive,
                                        a.start_line, a.end_line)
             under == FilesUnder(files, a.file)
             hit == { p \in under : FindMatches(ReadText(files, p), cfg) # <<>> }
         IN  { p \o SeqOf(under \ hit) : p \in Perms(hit) }

SInit ==
    /\ \E d \in Disks : fs = d[1] /\ dirs = d[2] /\ fs0 = d[1] /\ dirs0 = d[2]
    /\ pc = "idle"
    /\ call = [tool |-> "none"]
    /\ result = [kind |-> "none"]
    /\ answer = NoAnswer
    /\ nops = 0

Returns(a, o, files, ds) ==
    /\ fs' = o.fs
    /\ dirs' = o.dirs
    /\ result' = o.result
    /\ call' = a
    /\ answer' = NoAnswer
    /\ fs0' = files
    /\ dirs0' = ds
    /\ nops' = nops + 1

\* write_file(..., mode = "preview" | "apply")
WriteFileCall ==
    /\ pc = "idle"
    /\ nops < MaxOps
    /\ \E a \in WriteCalls :
           /\ a.mode \in {"preview", "apply"}
           /\ Returns(a, WriteEngineWriteFile(fs, dirs, a), fs, dirs)
    /\ pc' = "idle"
    /\ UNCHANGED notS

\* write_file(..., mode = "preview_and_ask"): write_and_ask up to the prompt
WriteAndAsk ==
    /\ pc = "idle"
    /\ nops < MaxOps
    /\ \E a \in WriteCalls :
           /\ a.mode = "preview_and_ask"
           /\ LET o == WriteEngineWriteFile(fs, dirs, [a EXCEPT !.mode = "preview"])
              IN  /\ Returns(a, o, fs, dirs)
                  /\ pc' = IF TotalFilesChanged(o.result) = 0 THEN "idle" ELSE "asking"
    /\ UNCHANGED notS

\* write_and_ask: one input() of the confirmation loop
WriteAnswer ==
    /\ pc = "asking"
    /\ call.tool = "write"
    /\ \E ans \in Answers :
           LET decision == WAskDecision(ans)
               o == WriteEngineWriteFile(fs, dirs, [call EXCEPT !.mode = "apply"])
           IN  /\ answer' = ans
               /\ pc' = IF decision = "again" THEN "asking" ELSE "idle"
               /\ fs' = IF decision = "apply" THEN o.fs ELSE fs
               /\ dirs' = IF decision = "apply" THEN o.dirs ELSE dirs
               /\ result' = CASE decision = "apply"  -> o.result
                              [] decision = "cancel" -> CancelMessage(ans)
                              [] decision = "again"  -> result
    /\ UNCHANGED <<call, fs0, dirs0, nops>>
    /\ UNCHANGED notS

\* search_and_replace(..., mode = "preview" | "apply")
SearchAndReplaceCall ==
    /\ pc = "idle"
    /\ nops < MaxOps
    /\ \E a \in ReplaceCalls :
           /\ a.mode \in {"preview", "apply"}
           /\ \E found \in FoundOrders(fs, dirs, a) :
                  Returns(a, SearchReplaceEngineRun(fs, dirs, a, found), fs, dirs)
    /\ pc' = "idle"
    /\ UNCHANGED notS

\* search_and_replace(..., mode = "preview_and_ask"): search_and_ask_replace up
\* to the prompt; a FileNotFoundError of the preview leaves the function
SearchAndAskReplace ==
    /\ pc = "idle"
    /\ nops < MaxOps
    /\ \E a \in ReplaceCalls :
           /\ a.mode = "preview_and_ask"
           /\ \E found \in FoundOrders(fs, dirs, a) :
                  LET o == SearchReplaceEngineRun(fs, dirs, [a EXCEPT !.mode = "preview"],
                                                  found)
                  IN  /\ Returns(a, o, fs, dirs)
                      /\ pc' = IF o.result.kind = "raised" THEN "idle"
                               ELSE IF TotalMatches(o.result.file_results) = 0 THEN "idle"
                               ELSE "asking"
    /\ UNCHANGED notS

\* search_and_ask_replace: one input() of the confirmation loop
ReplaceAnswer ==
    /\ pc = "asking"
    /\ call.tool = "replace"
    /\ \E ans \in Answers :
           LET decision == RAskDecision(ans)
           IN  /\ answer' = ans
               /\ pc' = IF decision = "again" THEN "asking" ELSE "idle"
               /\ \E found \in FoundOrders(fs, dirs, call) :
                      LET o == SearchReplaceEngineRun(fs, dirs,
                                   [call EXCEPT !.mode = "apply"], found)
                      IN  /\ fs' = IF decision = "apply" THEN o.fs ELSE fs
                          /\ dirs' = IF decision = "apply" THEN o.dirs ELSE dirs
                          /\ result' = CASE decision = "apply"  -> o.result
                                         [] decision = "cancel" -> CancelMessage(ans)
                                         [] decision = "again"  -> result
    /\ UNCHANGED <<call, fs0, dirs0, nops>>
    /\ UNCHANGED notS

SNext ==
    \/ WriteFileCall
    \/ WriteAndAsk
    \/ WriteAnswer
    \/ SearchAndReplaceCall
    \/ SearchAndAskReplace
    \/ ReplaceAnswer

(***************************************************************************)
(* morpher/tools/utils/ignore_controller.py                                *)
(* Paths, rules and command lines are texts over an alphabet whose letters *)
(* are single characters and whole words (a word holds no "/", "*", "'",   *)
(* "-", ":", "#" and no white space).  The rules and command lines of the  *)
(* model hold no "?", "[", backslash or double quote, and quotes open      *)
(* only at the start of a word.                                            *)
(***************************************************************************)
SLASH == "/"
STAR  == "*"
QUOTE == "'"

\* str.startswith
StartsWith(s, prefix) ==
    Len(prefix) <= Len(s) /\ SubSeq(s, 1, Len(prefix)) = prefix

\* str.lstrip("/") and str.rstrip("/")
RECURSIVE LStripSlash(_)
LStripSlash(s) ==
    IF s # <<>> /\ Head(s) = SLASH THEN LStripSlash(Tail(s)) ELSE s

RECURSIVE RStripSlash(_)
RStripSlash(s) ==
    IF s # <<>> /\ s[Len(s)] = SLASH THEN RStripSlash(SubSeq(s, 1, Len(s) - 1)) ELSE s

\* str.split("/"), as pathlib takes a path apart
RECURSIVE SplitSlash(_)
SplitSlash(s) ==
    IF \A i \in 1..Len(s) : s[i] # SLASH THEN <<s>>
    ELSE LET i == CHOOSE k \in 1..Len(s) :
                      s[k] = SLASH /\ \A j \in 1..(k - 1) : s[j] # SLASH
         IN  <<SubSeq(s, 1, i - 1)>> \o SplitSlash(SubSeq(s, i + 1, Len(s)))

RECURSIVE JoinSlash(_)
JoinSlash(segs) ==
    IF segs = <<>> THEN <<>>
    ELSE IF Len(segs) = 1 THEN segs[1]
    ELSE segs[1] \o <<SLASH>> \o JoinSlash(Tail(segs))

\* str.splitlines(): line breaks are "\n", "\r\n" and "\r"; no empty last line
SplitLines(s) ==
    LET l == Split(Normalize(s))
    IN  IF l[Len(l)] = <<>> THEN SubSeq(l, 1, Len(l) - 1) ELSE l

\* fnmatch.fnmatch(name, pat) for patterns of letters and "*"
RECURSIVE Fnmatch(_, _)
Fnmatch(name, pat) ==
    IF pat = <<>> THEN name = <<>>
    ELSE IF Head(pat) = STAR
    THEN Fnmatch(name, Tail(pat)) \/ (name # <<>> /\ Fnmatch(Tail(name), pat))
    ELSE name # <<>> /\ Head(name) = Head(pat) /\ Fnmatch(Tail(name), Tail(pat))

\* IGNORE_FILENAME in the working directory: absent, or a file with a text
NoIgnoreFile == [exists |-> FALSE, text |-> <<>>]
IgnoreFile(text) == [exists |-> TRUE, text |-> text]

\* self.cwd, an absolute path of one segment
Cwd == <<"ws">>

\* UnixPolicy / PowerShellPolicy .file_reading_commands
UnixCommands ==
    { <<"c", "a", "t">>, <<"l", "e", "s", "s">>, <<"m", "o", "r", "e">>,
      <<"h", "e", "a", "d">>, <<"t", "a", "i", "l">>, <<"g", "r", "e", "p">>,
      <<"a", "w", "k">>, <<"s", "e", "d">> }
PowerShellCommands ==
    { <<"g", "e", "t", "-", "c", "o", "n", "t", "e", "n", "t">>, <<"g", "c">>,
      <<"t", "y", "p", "e">>,
      <<"s", "e", "l", "e", "c", "t", "-", "s", "t", "r", "i", "n", "g">>,
      <<"s", "l", "s">> }
FileReadingCommands(policy) ==
    IF policy = "unix" THEN UnixCommands ELSE PowerShellCommands

\* shlex.split(command, posix): words are separated by white space; a quoted
\* stretch belongs to its word, without the quotes when posix and with them
\* otherwise; a quote that is never closed raises ValueError
RECURSIVE ShlexScan(_, _, _, _, _)
ShlexScan(rest, cur, in_word, in_quote, posix) ==
    IF rest = <<>>
    THEN IF in_quote THEN [raised |-> TRUE, parts |-> <<>>]
         ELSE [raised |-> FALSE, parts |-> IF in_word THEN <<cur>> ELSE <<>>]
    ELSE LET c == Head(rest)
             kept == IF posix THEN cur ELSE cur \o <<c>>
             emit(word, r) == IF r.raised THEN r
                              ELSE [raised |-> FALSE, parts |-> <<word>> \o r.parts]
         IN  IF in_quote
             THEN IF c = QUOTE
                  THEN ShlexScan(Tail(rest), kept, TRUE, FALSE, posix)
                  ELSE ShlexScan(Tail(rest), cur \o <<c>>, TRUE, TRUE, posix)
             ELSE IF IsSpace(c)
             THEN IF in_word
                  THEN emit(cur, ShlexScan(Tail(rest), <<>>, FALSE, FALSE, posix))
                  ELSE ShlexScan(Tail(rest), <<>>, FALSE, FALSE, posix)
             ELSE IF c = QUOTE
             THEN ShlexScan(Tail(rest), kept, TRUE, TRUE, posix)
             ELSE ShlexScan(Tail(rest), cur \o <<c>>, TRUE, FALSE, posix)

\* policy.tokenize
Tokenize(policy, command) == ShlexScan(command, <<>>, FALSE, FALSE, policy = "unix")

\* a flag of the policy: iter_candidate_args passes it over
IsFlag(policy, a) ==
    IF policy = "unix" THEN a # <<>> /\ Head(a) = "-"
    ELSE (a # <<>> /\ Head(a) = SLASH) \/ (\E i \in 1..Len(a) : a[i] = ":")

\* an iter_candidate_args that yields every part
IterAllArgs(policy, parts) == parts

\* policy.iter_candidate_args
IterCandidateArgs(policy, parts) == SelectSeq(parts, LAMBDA a : ~IsFlag(policy, a))

\* IgnoreController.load: the stripped lines that are neither empty nor comments
LoadPatterns(file) ==
    IF ~file.exists THEN <<>>
    ELSE LET lines == SplitLines(file.text)
             stripped == [i \in 1..Len(lines) |-> Strip(lines[i])]
         IN  SelectSeq(stripped, LAMBDA line : line # <<>> /\ Head(line) # "#")

\* one pattern of the loop in _matches
PatternMatches(pat, rel_posix) ==
    LET anchor == LStripSlash(pat)
    IN  IF pat[Len(pat)] = SLASH
        THEN rel_posix = RStripSlash(anchor) \/ StartsWith(rel_posix, anchor)
        ELSE Fnmatch(rel_posix, anchor)

\* IgnoreController._matches
Matches(patterns, rel_posix) ==
    \E i \in 1..Len(patterns) : PatternMatches(patterns[i], rel_posix)

\* Path.resolve() on the segments of a path: "" and "." go, ".." steps up
RECURSIVE ResolveSegs(_, _)
ResolveSegs(stack, segs) ==
    IF segs = <<>> THEN stack
    ELSE LET seg == Head(segs)
         IN  IF seg = <<>> \/ seg = <<".">> THEN ResolveSegs(stack, Tail(segs))
             ELSE IF seg = <<".", ".">>
             THEN ResolveSegs(IF stack = <<>> THEN <<>>
                              ELSE SubSeq(stack, 1, Len(stack) - 1), Tail(segs))
             ELSE ResolveSegs(stack \o <<seg>>, Tail(segs))

\* (self.cwd / rel_path).resolve(): an absolute rel_path replaces the cwd
ResolvePath(rel_path) ==
    IF rel_path # <<>> /\ Head(rel_path) = SLASH
    THEN ResolveSegs(<<>>, SplitSlash(rel_path))
    ELSE ResolveSegs(<<Cwd>>, SplitSlash(rel_path))

\* abs_path.relative_to(self.cwd).as_posix(); [outside |-> TRUE] is the ValueError
RelativeToCwd(abs_segs) ==
    IF abs_segs # <<>> /\ abs_segs[1] = Cwd
    THEN [outside |-> FALSE,
          rel |-> IF Len(abs_segs) = 1 THEN <<".">> ELSE JoinSlash(Tail(abs_segs))]
    ELSE [outside |-> TRUE, rel |-> <<>>]

\* IgnoreController.validate_access, once loaded
ValidateAccess(patterns, rel_path) ==
    IF patterns = <<>> THEN TRUE
    ELSE LET r == RelativeToCwd(ResolvePath(rel_path))
         IN  IF r.outside THEN TRUE ELSE ~Matches(patterns, r.rel)

\* what validate_command returns: None, the blocking argument, or ValueError
NoneReturned == [kind |-> "none", text |-> <<>>]
Blocking(arg) == [kind |-> "arg", text |-> arg]
ValueError == [kind |-> "ValueError", text |-> <<>>]

RECURSIVE FirstDenied(_, _)
FirstDenied(patterns, args) ==
    IF args = <<>> THEN NoneReturned
    ELSE IF ~ValidateAccess(patterns, Head(args)) THEN Blocking(Head(args))
    ELSE FirstDenied(patterns, Tail(args))

\* IgnoreController.validate_command, once loaded
ValidateCommand(policy, patterns, command) ==
    IF patterns = <<>> THEN NoneReturned
    ELSE LET t == Tokenize(policy, command)
         IN  IF t.raised THEN ValueError
             ELSE IF t.parts = <<>> THEN NoneReturned
             ELSE IF Lower(t.parts[1]) \notin FileReadingCommands(policy)
             THEN NoneReturned
             ELSE FirstDenied(patterns, IterCandidateArgs(policy, Tail(t.parts)))

(***************************************************************************)
(* One IgnoreController and the ignore file of its working directory.      *)
(***************************************************************************)
MaxGuardOps == 2

Policies == {"unix", "powershell"}

BuildRule == <<"build", SLASH>>

IgnoreFiles ==
    { NoIgnoreFile,
      IgnoreFile(BuildRule \o <<NL>>),
      IgnoreFile(<<SP, "#", "c", NL, NL, SP>> \o BuildRule
                     \o <<SP, CR, NL, STAR, ".", "log", CR, "secret">>),
      IgnoreFile(<<STAR>>),
      IgnoreFile(<<"#", "c", NL>>) }

BuildOutput == <<"build", SLASH, "output.txt">>
SrcBuildX   == <<"src", SLASH, "build", SLASH, "x">>
OtherOutput == <<"other", SLASH, "output.txt">>

AccessPaths ==
    { BuildOutput, SrcBuildX, OtherOutput,
      <<"build">>,
      <<".", SLASH, "build", SLASH, "x">>,
      <<".", ".", SLASH, "x">>,
      <<SLASH, "etc", SLASH, "x">>,
      <<SLASH, "ws", SLASH, "build", SLASH, "x">>,
      <<"a", ".", "log">>,
      <<>> }

Cat == <<"c", "a", "t">>

Commands ==
    { <<>>,
      <<SP, SP>>,
      Cat,
      Cat \o <<SP, "build", SLASH, "x">>,
      <<"C", "A", "t", SP, "-", "n", SP, "other", SLASH, "y", SP, "build", SLASH, "x">>,
      Cat \o <<SP, "a", ".", "log", SP, "-", "build", SLASH, "x", SP, "secret">>,
      Cat \o <<SP, QUOTE, QUOTE>>,
      Cat \o <<SP, QUOTE, "build", SLASH, "x", QUOTE>>,
      Cat \o <<SP, QUOTE, "build", SLASH, "x">>,
      <<"e", "c", "h", "o", SP, "build", SLASH, "x">>,
      <<"g", "C", SP, SLASH, "x", SP, "c", ":", "build", SLASH, "x", SP, "build", SLASH, "y">>,
      <<"g", "c", SP, "other", SLASH, "y">> }

\* IgnoreController.__init__
GInit ==
    /\ ignore_file \in IgnoreFiles
    /\ \E policy \in Policies : ctl = [policy |-> policy, loaded |-> FALSE, patterns |-> <<>>]
    /\ gcall = [op |-> "none"]
    /\ first_rules = <<>>
    /\ gsteps = 0

\* the controller after load()
Loaded(c, file) == [c EXCEPT !.loaded = TRUE, !.patterns = LoadPatterns(file)]

\* an _ensure_loaded() that reads the file every time
EnsureLoadedAlways(c, file) == Loaded(c, file)

\* the controller after _ensure_loaded()
EnsureLoaded(c, file) == IF c.loaded THEN c ELSE Loaded(c, file)

\* the operation leaves the controller as c and returns ret
GReturns(op, arg, c, ret) ==
    /\ ctl' = c
    /\ gcall' = [op |-> op, arg |-> arg, ret |-> ret]
    /\ first_rules' = IF ctl.loaded THEN first_rules ELSE c.patterns
    /\ gsteps' = gsteps + 1
    /\ UNCHANGED ignore_file

\* controller.load()
ControllerLoad ==
    /\ gsteps < MaxGuardOps
    /\ GReturns("load", <<>>, Loaded(ctl, ignore_file), NoneReturned)
    /\ UNCHANGED notG

\* controller.validate_access(rel_path)
ControllerValidateAccess ==
    /\ gsteps < MaxGuardOps
    /\ \E rel_path \in AccessPaths :
           LET c == EnsureLoaded(ctl, ignore_file)
           IN  GReturns("validate_access", rel_path, c,
                        ValidateAccess(c.patterns, rel_path))
    /\ UNCHANGED notG

\* controller.validate_command(command)
ControllerValidateCommand ==
    /\ gsteps < MaxGuardOps
    /\ \E command \in Commands :
           LET c == EnsureLoaded(ctl, ignore_file)
           IN  GReturns("validate_command", command, c,
                        ValidateCommand(c.policy, c.patterns, command))
    /\ UNCHANGED notG

\* somebody else rewrites, creates or removes the ignore file
IgnoreFileChanges ==
    /\ \E file \in IgnoreFiles \ {ignore_file} : ignore_file' = file
    /\ UNCHANGED <<ctl, gcall, first_rules, gsteps>>
    /\ UNCHANGED notG

GNext ==
    \/ ControllerLoad
    \/ ControllerValidateAccess
    \/ ControllerValidateCommand
    \/ IgnoreFileChanges

(***************************************************************************)
(* morpher/tools/execute.py : CommandExecutor.run                          *)
(***************************************************************************)
MaxRuns == 2

\* CommandConfig: the fields the ignore check reads
CommandConfig(command, enable_ignore, shell_policy) ==
    [command |-> command, enable_ignore |-> enable_ignore, shell_policy |-> shell_policy]

\* exit_code None and pid None are 0 - 1 here; a pid is positive
None == 0 - 1

CommandResult(exit_code, blocked_by, pid, timed_out) ==
    [exit_code |-> exit_code, blocked_by |-> blocked_by, pid |-> pid, timed_out |-> timed_out]

\* the result of a blocked command: error names `arg`
BlockedResult(arg) == CommandResult(1, Blocking(arg), None, FALSE)

\* what a subprocess can end as: <<exit code, timed out>>
ProcessOutcomes == { <<0, FALSE>>, <<1, FALSE>>, <<0 - 9, TRUE>> }

\* `if blocked:` -- None and the empty string are both false
Truthy(ret) == ret.kind = "arg" /\ ret.text # <<>>

XInit ==
    /\ xignore \in IgnoreFiles
    /\ xcall = [command |-> <<>>, enable_ignore |-> FALSE, shell_policy |-> "none"]
    /\ xresult = [exit_code |-> None]
    /\ spawned = 0
    /\ xruns = 0

\* CommandExecutor.run(config)
CommandExecutorRun ==
    /\ xruns < MaxRuns
    /\ \E command \in Commands, enable_ignore \in BOOLEAN, policy \in Policies :
           LET cfg == CommandConfig(command, enable_ignore, policy)
               blocked == IF enable_ignore
                          THEN ValidateCommand(policy, LoadPatterns(xignore), command)
                          ELSE NoneReturned
           IN  /\ xcall' = cfg
               /\ IF blocked.kind = "ValueError"
                  THEN xresult' = [raised |-> "ValueError"] /\ spawned' = spawned
                  ELSE IF Truthy(blocked)
                  THEN xresult' = BlockedResult(blocked.text) /\ spawned' = spawned
                  ELSE /\ spawned' = spawned + 1
                       /\ \E o \in ProcessOutcomes :
                              xresult' = CommandResult(o[1], NoneReturned, spawned + 1, o[2])
    /\ xruns' = xruns + 1
    /\ UNCHANGED xignore
    /\ UNCHANGED notX

XNext == CommandExecutorRun

(***************************************************************************)
(* The tree of search results: PathTreeNode, PathTree and from_paths.      *)
(* A node is a record of its name, its is_leaf flag, its meta and its      *)
(* children, a function from child names to nodes (the children dict).     *)
(***************************************************************************)
MaxPaths == 3

NoChildren == [k \in {} |-> 0]

\* PathTreeNodeForSearchTool(name, is_leaf, meta)
PathTreeNode(name, is_leaf, meta) ==
    [name |-> name, is_leaf |-> is_leaf, meta |-> meta, children |-> NoChildren]

\* tree.root before the first add_path
NoRoot == [none |-> TRUE]

\* raised by tree.root.concentrate() when no path was added
AttributeError == [raised |-> "AttributeError"]

\* os.path.join(a, b)
OsPathJoin(a, b) ==
    IF b # <<>> /\ Head(b) = SLASH THEN b
    ELSE IF a = <<>> \/ a[Len(a)] = SLASH THEN a \o b
    ELSE a \o <<SLASH>> \o b

\* list(Path(path).parts): the root "/" of an absolute path, then the segments
\* that are neither empty nor "."
PathParts(path) ==
    LET segs == SplitSlash(path)
        keep == SelectSeq(segs, LAMBDA seg : seg # <<>> /\ seg # <<".">>)
    IN  IF StartsWith(path, <<SLASH>>) THEN <<<<SLASH>>>> \o keep ELSE keep

\* add_child: an existing child is returned as it is
AddChild(node, child_name, is_leaf, meta) ==
    IF child_name \in DOMAIN node.children THEN node
    ELSE [node EXCEPT !.children =
              [k \in (DOMAIN node.children) \cup {child_name} |->
                   IF k = child_name THEN PathTreeNode(child_name, is_leaf, meta)
                   ELSE node.children[k]]]

\* the loop of add_path from current_node on: the last part is added as a
\* leaf that carries the file result, the others as directories without meta
RECURSIVE AddParts(_, _, _)
AddParts(current_node, path_parts, path_meta) ==
    IF path_parts = <<>> THEN current_node
    ELSE LET part    == Head(path_parts)
             is_leaf == Len(path_parts) = 1
             meta    == IF is_leaf THEN path_meta ELSE <<>>
             node    == AddChild(current_node, part, is_leaf, meta)
         IN  [node EXCEPT !.children[part] = AddParts(@, Tail(path_parts), path_meta)]

\* PathTreeForSearchTool.add_path
AddPath(root, path_parts, path_meta) ==
    LET r    == IF root = NoRoot THEN PathTreeNode(path_parts[1], FALSE, <<>>) ELSE root
        rest == IF path_parts[1] = r.name THEN Tail(path_parts) ELSE path_parts
    IN  AddParts(r, rest, path_meta)

\* the while loop of concentrate with one pass only
RECURSIVE ConcentrateLoopOnce(_)
ConcentrateLoopOnce(node) ==
    IF /\ Cardinality(DOMAIN node.children) = 1
       /\ ~ \E k \in DOMAIN node.children : node.children[k].is_leaf
    THEN LET child == node.children[CHOOSE k \in DOMAIN node.children : TRUE]
         IN  [node EXCEPT !.name = OsPathJoin(node.name, child.name),
                          !.children = child.children]
    ELSE node

\* the while loop of concentrate
RECURSIVE ConcentrateLoop(_)
ConcentrateLoop(node) ==
    IF /\ Cardinality(DOMAIN node.children) = 1
       /\ ~ \E k \in DOMAIN node.children : node.children[k].is_leaf
    THEN LET child == node.children[CHOOSE k \in DOMAIN node.children : TRUE]
         IN  ConcentrateLoop([node EXCEPT !.name = OsPathJoin(node.name, child.name),
                                          !.children = child.children])
    ELSE node

\* PathTreeNode.concentrate
RECURSIVE Concentrate(_)
Concentrate(node) ==
    LET merged == ConcentrateLoop(node)
    IN  [merged EXCEPT !.children =
             [k \in DOMAIN merged.children |-> Concentrate(merged.children[k])]]

\* the loop of from_paths over the file results
RECURSIVE AddPaths(_, _)
AddPaths(root, paths) ==
    IF paths = <<>> THEN root
    ELSE AddPaths(AddPath(root, PathParts(Head(paths)), Head(paths)), Tail(paths))

\* TreeGraphForSearchTool.from_paths
FromPaths(paths, concentrate) ==
    LET root == AddPaths(NoRoot, paths)
    IN  IF ~concentrate THEN root
        ELSE IF root = NoRoot THEN AttributeError
        ELSE Concentrate(root)

\* a path text of segments
PathOf(segs) == JoinSlash([i \in 1..Len(segs) |-> <<segs[i]>>])

ABCFile == PathOf(<<"a", "b", "c", "file.txt">>)

\* file results: relative and absolute paths, a lone file name, a file and a
\* directory of one name under different directories ("a/b" and "b/c/x")
TreePaths ==
    { ABCFile, PathOf(<<"a", "b", "x">>), PathOf(<<"a", "y">>),
      PathOf(<<"a", "b">>), PathOf(<<"b", "c", "x">>), PathOf(<<"file.txt">>),
      <<SLASH>> \o PathOf(<<"a", "b", "x">>), <<SLASH>> \o PathOf(<<"a", "y">>),
      <<"a", SLASH, ".", SLASH, SLASH, "b", SLASH, "c", SLASH, "y">> }

TInit ==
    /\ tpaths = <<>>
    /\ tconcentrate = FALSE
    /\ troot = NoRoot

\* one call per behaviour: from_paths builds a new tree each time
TreeGraphFromPaths ==
    \E n \in 0..MaxPaths : \E paths \in [1..n -> TreePaths] : \E concentrate \in BOOLEAN :
        /\ tpaths = <<>> /\ troot = NoRoot
        /\ tpaths' = paths
        /\ tconcentrate' = concentrate
        /\ troot' = FromPaths(paths, concentrate)
        /\ UNCHANGED notT

TNext == TreeGraphFromPaths

TIdle == TInit

(***************************************************************************)
(* The agent's tool-call boundary: AgentMorpher.call_tool.                 *)
(* An argument string is a sequence of JSON tokens.                        *)
(***************************************************************************)
MaxToolCalls == 2

\* the string literals of the argument strings, with the text they denote
JsonStrings == { "\"result\"", "\"done\"", "\"x\"" }

JsonString(token) ==
    CASE token = "\"result\"" -> "result"
      [] token = "\"done\""   -> "done"
      [] token = "\"x\""      -> "x"

JsonScalars == JsonStrings \cup { "1", "null" }

\* the Python value of a scalar token, as str() shows it
JsonValue(token) ==
    IF token \in JsonStrings THEN JsonString(token)
    ELSE IF token = "null" THEN "None"
    ELSE token

JSONDecodeError == [kind |-> "JSONDecodeError"]

\* the members of a JSON object after "{": key ":" value, separated by ",",
\* up to the closing "}"; a later duplicate key replaces the earlier one
RECURSIVE JsonMembers(_, _)
JsonMembers(tokens, dict) ==
    IF Len(tokens) < 4 THEN JSONDecodeError
    ELSE IF ~(tokens[1] \in JsonStrings /\ tokens[2] = ":" /\ tokens[3] \in JsonScalars)
    THEN JSONDecodeError
    ELSE LET key  == JsonString(tokens[1])
             more == [k \in (DOMAIN dict) \cup {key} |->
                          IF k = key THEN JsonValue(tokens[3]) ELSE dict[k]]
         IN  IF tokens[4] = "}"
             THEN IF Len(tokens) = 4 THEN [kind |-> "dict", value |-> more]
                  ELSE JSONDecodeError
             ELSE IF tokens[4] = ","
             THEN JsonMembers(SubSeq(tokens, 5, Len(tokens)), more)
             ELSE JSONDecodeError

\* json.loads(arguments)
JsonLoads(tokens) ==
    IF Len(tokens) = 1 /\ tokens[1] \in JsonScalars THEN [kind |-> "scalar"]
    ELSE IF tokens = <<"[", "]">> THEN [kind |-> "list"]
    ELSE IF tokens = <<"{", "}">> THEN [kind |-> "dict", value |-> [k \in {} |-> ""]]
    ELSE IF tokens # <<>> /\ Head(tokens) = "{"
    THEN JsonMembers(Tail(tokens), [k \in {} |-> ""])
    ELSE JSONDecodeError

\* TOOL_FUNCS["attempt_completion"](**arguments), then str(content); a value
\* that is no mapping, a missing `result` and an unexpected keyword raise
\* TypeError
AttemptCompletion(arguments) ==
    IF arguments.kind # "dict" THEN [kind |-> "raised", error |-> "TypeError"]
    ELSE IF DOMAIN arguments.value # {"result"}
    THEN [kind |-> "raised", error |-> "TypeError"]
    ELSE [kind |-> "returned",
          text |-> <<"Task completed successfully: ", arguments.value["result"]>>]

\* ToolCallResponse.form_message: content becomes form_content(), the fields
\* other than role as "**key:**\nvalue" joined by line breaks
FormMessage(tool_call_id, name, tool_content) ==
    [role |-> "tool", tool_call_id |-> tool_call_id, name |-> name,
     content |-> <<"**tool_call_id:**", NL, tool_call_id, NL,
                   "**name:**", NL, name, NL, "**content:**", NL>> \o tool_content]

\* the body of the loop of call_tool after json.loads: the tool message
ToolMessage(funcs, tool_call, arguments) ==
    LET func_name == tool_call.name
        outcome   == AttemptCompletion(arguments)
        text      == IF func_name \in funcs
                     THEN IF outcome.kind = "returned" THEN outcome.text
                          ELSE <<"Error executing ", func_name, ": ", outcome.error>>
                     ELSE <<"Unknown tool: ", func_name>>
    IN  FormMessage(tool_call.id, func_name, text)

\* the loop of call_tool: json.loads is outside the try block, so its
\* JSONDecodeError leaves call_tool with the messages appended so far
RECURSIVE CallTool(_, _, _)
CallTool(funcs, msgs, calls) ==
    IF calls = <<>> THEN [kind |-> "returned", messages |-> msgs]
    ELSE LET tool_call == Head(calls)
             arguments == JsonLoads(tool_call.arguments)
         IN  IF arguments = JSONDecodeError
             THEN [kind |-> "JSONDecodeError", messages |-> msgs]
             ELSE CallTool(funcs, Append(msgs, ToolMessage(funcs, tool_call, arguments)),
                           Tail(calls))

ToolNames == { "attempt_completion", "rm" }

ArgumentStrings ==
    { <<"{", "\"result\"", ":", "\"done\"", "}">>,
      <<"{", "}">>,
      <<"{", "\"x\"", ":", "1", ",", "\"result\"", ":", "null", "}">>,
      <<"[", "]">>,
      <<"{", "\"result\"", ":">>,
      <<"{", "\"result\"", ":", "\"done\"", ",", "}">>,
      <<>> }

\* the tool calls of one completion: tool_call.id, function.name and
\* function.arguments
ToolCalls ==
    { [id |-> "call_1", name |-> n, arguments |-> a] : n \in ToolNames, a \in ArgumentStrings }

NotCalled == [kind |-> "none"]

\* AgentMorpher(tools = ...): the tools of the configuration that TOOL_FUNCS
\* knows, or none
AInit ==
    /\ tool_funcs \in { {}, {"attempt_completion"} }
    /\ messages = <<>>
    /\ tool_calls = <<>>
    /\ areturn = NotCalled
    /\ apc = "idle"
    /\ requests = <<>>

\* agent.call_tool(tool_calls), once per behaviour
AgentCallTool ==
    \E n \in 1..MaxToolCalls : \E calls \in [1..n -> ToolCalls] :
        LET o == CallTool(tool_funcs, messages, calls)
        IN  /\ areturn = NotCalled
            /\ apc = "idle"
            /\ tool_calls' = calls
            /\ messages' = o.messages
            /\ areturn' = [kind |-> o.kind]
            /\ UNCHANGED <<tool_funcs, apc, requests>>
            /\ UNCHANGED notA

\* the completion requests of one complete()
MaxRequests == 3

\* message.tool_calls of a completion: none, or calls with their ids, tool
\* names and argument strings
Responses ==
    LET done  == <<"{", "\"result\"", ":", "\"done\"", "}">>
        empty == <<"{", "}">>
        cut   == <<"{", "\"result\"", ":">>
    IN  { <<>>,
          <<[id |-> "call_1", name |-> "attempt_completion", arguments |-> done]>>,
          <<[id |-> "call_1", name |-> "attempt_completion", arguments |-> done],
            [id |-> "call_2", name |-> "rm", arguments |-> empty]>>,
          <<[id |-> "call_1", name |-> "attempt_completion", arguments |-> cut],
            [id |-> "call_2", name |-> "rm", arguments |-> empty]>>,
          <<[id |-> "call_1", name |-> "rm", arguments |-> empty],
            [id |-> "call_2", name |-> "attempt_completion", arguments |-> <<>>]>> }

\* message.__dict__ of the first choice of a completion
AssistantMessage(response) == [role |-> "assistant", tool_calls |-> response]

\* agent.complete(): one completion request with what follows it. The request
\* carries self.messages, the assistant message is appended, and with tool
\* calls call_tool runs and complete() calls itself for the next request; an
\* exception of call_tool leaves every complete() on the stack
AgentComplete ==
    \E response \in Responses :
        LET msgs == Append(messages, AssistantMessage(response))
            o    == IF response # <<>> THEN CallTool(tool_funcs, msgs, response)
                    ELSE [kind |-> "returned", messages |-> msgs]
        IN  /\ areturn = NotCalled
            /\ apc \in {"idle", "completing"}
            /\ Len(requests) < MaxRequests
            /\ requests' = Append(requests, messages)
            /\ messages' = o.messages
            /\ apc' = IF response = <<>> THEN "returned"
                      ELSE IF o.kind = "returned" THEN "completing"
                      ELSE "raised"
            /\ UNCHANGED <<tool_funcs, tool_calls, areturn>>
            /\ UNCHANGED notA

ANext ==
    \/ AgentCallTool
    \/ AgentComplete

AIdle ==
    /\ tool_funcs = {}
    /\ messages = <<>>
    /\ tool_calls = <<>>
    /\ areturn = NotCalled
    /\ apc = "idle"
    /\ requests = <<>>

(***************************************************************************)
(* The listing of the matches of one file: FileMatchMeta.format_matches.   *)
(***************************************************************************)
MaxMatches == 3

LineMeta(line, text) == [line |-> line, text |-> text]

\* f"{match.line:<3d}": the number, padded with spaces on the right to width 3
LeftAligned3(n) ==
    <<ToString(n)>> \o (IF n < 10 THEN <<SP, SP>> ELSE IF n < 100 THEN <<SP>> ELSE <<>>)

\* the line of one match, with its line break
MatchLine(prefix, match) ==
    prefix \o <<SP, SP>> \o LeftAligned3(match.line) \o <<" | ">> \o match.text \o <<NL>>

\* the truncation note, with its line break
TruncationNote(prefix, remaining) ==
    prefix \o <<"  ... [Content truncated - ", ToString(remaining),
                " more matches hidden]", NL>>

\* for i, match in enumerate(self.matches, 1): the line is added before the
\* bound is tested
RECURSIVE FormatMatchesLoop(_, _, _, _)
FormatMatchesLoop(ms, prefix, i, max_matches_per_file) ==
    IF i > Len(ms) THEN <<>>
    ELSE MatchLine(prefix, ms[i])
         \o (IF i >= max_matches_per_file THEN <<>>
             ELSE FormatMatchesLoop(ms, prefix, i + 1, max_matches_per_file))

\* FileMatchMeta.format_matches
FormatMatches(ms, prefix, max_matches_per_file) ==
    FormatMatchesLoop(ms, prefix, 1, max_matches_per_file)
    \o (IF Len(ms) > max_matches_per_file
        THEN TruncationNote(prefix, Len(ms) - max_matches_per_file)
        ELSE <<>>)

\* the matches of a file: ascending line numbers, stripped texts
MatchLists ==
    UNION { { [i \in 1..n |-> LineMeta(7 * i, t[i])] : t \in [1..n -> { <<"a">>, <<"b", SP, "c">> }] }
            : n \in 0..MaxMatches }

Prefixes == { <<>>, <<SP, SP, SP, SP>> }

NoListing == <<"none">>

LInit ==
    /\ lcall = [matches |-> <<>>, prefix |-> <<>>, max_matches_per_file |-> 0]
    /\ listing = NoListing

\* meta.format_matches(prefix, max_matches_per_file), once per behaviour
FileMatchMetaFormatMatches ==
    \E ms \in MatchLists, prefix \in Prefixes, mx \in 0..(MaxMatches + 1) :
        /\ listing = NoListing
        /\ lcall' = [matches |-> ms, prefix |-> prefix, max_matches_per_file |-> mx]
        /\ listing' = FormatMatches(ms, prefix, mx)
        /\ UNCHANGED notL

LNext == FileMatchMetaFormatMatches

LIdle == LInit

GIdle ==
    /\ ignore_file = NoIgnoreFile
    /\ ctl = [policy |-> "unix", loaded |-> FALSE, patterns |-> <<>>]
    /\ gcall = [op |-> "none"]
    /\ first_rules = <<>>
    /\ gsteps = 0

XIdle ==
    /\ xignore = NoIgnoreFile
    /\ xcall = [command |-> <<>>, enable_ignore |-> FALSE, shell_policy |-> "none"]
    /\ xresult = [exit_code |-> None]
    /\ spawned = 0
    /\ xruns = 0

\* the matcher pipeline does not touch storage, and the other way round
MIdle ==
    /\ content = <<>>
    /\ config = SearchReplaceConfig(<<>>, <<>>, TRUE, 0, 0)
    /\ matches = <<>>
    /\ rendered = <<>>
    /\ rematches = <<>>
    /\ stage = "idle"

SIdle ==
    /\ fs = EmptyFs /\ dirs = {} /\ fs0 = EmptyFs /\ dirs0 = {}
    /\ pc = "idle"
    /\ call = [tool |-> "none"]
    /\ result = [kind |-> "none"]
    /\ answer = NoAnswer
    /\ nops = 0

\* the matcher and the default rendering on one text
MatchInit == MInit /\ SIdle /\ GIdle /\ XIdle /\ TIdle /\ AIdle /\ LIdle
SpecMatch == MatchInit /\ [][MNext]_vars

\* the write and replace tools on storage
StoreInit == SInit /\ MIdle /\ GIdle /\ XIdle /\ TIdle /\ AIdle /\ LIdle
SpecStore == StoreInit /\ [][SNext]_vars

\* one ignore controller
GuardInit == GInit /\ MIdle /\ SIdle /\ XIdle /\ TIdle /\ AIdle /\ LIdle
SpecGuard == GuardInit /\ [][GNext]_vars

\* the command executor
ExecInit == XInit /\ MIdle /\ SIdle /\ GIdle /\ TIdle /\ AIdle /\ LIdle
SpecExec == ExecInit /\ [][XNext]_vars

\* the tree of search results
TreeInit == TInit /\ MIdle /\ SIdle /\ GIdle /\ XIdle /\ AIdle /\ LIdle
SpecTree == TreeInit /\ [][TNext]_vars

\* the agent's tool-call boundary
AgentInit == AInit /\ MIdle /\ SIdle /\ GIdle /\ XIdle /\ TIdle /\ LIdle
SpecAgent == AgentInit /\ [][ANext]_vars

\* the listing of the matches of one file
ListInit == LInit /\ MIdle /\ SIdle /\ GIdle /\ XIdle /\ TIdle /\ AIdle
SpecList == ListInit /\ [][LNext]_vars

(***************************************************************************)
(* Properties of the matcher and the default rendering (SpecMatch).        *)
(* They restate the window, the comparison and the expected output on      *)
(* their own, in 1-based line numbers.                                     *)
(***************************************************************************)
ContentLines == Split(content)
SearchLines  == Split(config.search)
SearchN      == Len(SearchLines)

\* the clamped window, as 1-based line numbers
WindowLo == IF config.start_line = 0 THEN 1 ELSE Max(1, config.start_line)
WindowHi == IF config.end_line = 0 THEN Len(ContentLines)
            ELSE Min(Len(ContentLines), config.end_line)

Fold(s) == IF config.case_sensitive THEN Strip(s) ELSE Lower(Strip(s))

\* the N lines starting at line p lie in the window and equal the search lines
BlockMatchesAt(p) ==
    /\ WindowLo <= p
    /\ p + SearchN - 1 <= WindowHi
    /\ \A k \in 1..SearchN : Fold(ContentLines[p + k - 1]) = Fold(SearchLines[k])

MatchStarts == { matches[k].line_number : k \in 1..Len(matches) }

WholeFile == config.start_line = 0 /\ config.end_line = 0

\* C1: for a search text of N >= 2 lines the matches are exactly those of the
\* greedy left-to-right scan: line p starts a match iff its block matches and
\* no match that started earlier covers p; starts are strictly ascending and at
\* least N apart; [A,B,A,B] searched for "A\nB" matches at lines 1 and 3.
C1_GreedyMultiline ==
    (stage # "input" /\ SearchN >= 2) =>
        /\ \A p \in 1..Len(ContentLines) :
               p \in MatchStarts <=>
                   /\ BlockMatchesAt(p)
                   /\ ~ \E q \in MatchStarts : q < p /\ p < q + SearchN
        /\ MatchStarts \subseteq 1..Len(ContentLines)
        /\ \A k \in 1..Len(matches) :
               /\ matches[k].original_line =
                      Join(SubSeq(ContentLines, matches[k].line_number,
                                  matches[k].line_number + SearchN - 1))
               /\ matches[k].replacement_lines = config.replace
        /\ \A k \in 1..(Len(matches) - 1) :
               matches[k].line_number + SearchN <= matches[k + 1].line_number
        /\ (content = ExampleABAB /\ config.search = <<"a", NL, "b">> /\ WholeFile)
               => /\ Len(matches) = 2
                  /\ matches[1].line_number = 1
                  /\ matches[2].line_number = 3

\* C1 witness: two matching blocks overlap and only the first is returned
C1_Witness ==
    /\ stage = "found"
    /\ SearchN = 2
    /\ Len(matches) = 1
    /\ BlockMatchesAt(1)
    /\ BlockMatchesAt(2)
    /\ matches[1].line_number = 1

\* C2: for a search text with no line break there is one match for every
\* line of the clamped window whose stripped (case-folded) text equals the
\* stripped search text, none for any other line, in ascending order with
\* 1-based line numbers; [a,b,a,c] searched for "a" matches at lines 1 and 3.
C2_SingleLine ==
    (stage # "input" /\ SearchN = 1) =>
        /\ MatchStarts =
               { p \in 1..Len(ContentLines) :
                     /\ WindowLo <= p /\ p <= WindowHi
                     /\ Fold(ContentLines[p]) = Fold(config.search) }
        /\ \A k \in 1..(Len(matches) - 1) :
               matches[k].line_number < matches[k + 1].line_number
        /\ \A k \in 1..Len(matches) :
               /\ matches[k].original_line = ContentLines[matches[k].line_number]
               /\ matches[k].replacement_lines = config.replace
        /\ (content = ExampleABAC /\ config.search = <<"a">> /\ WholeFile)
               => /\ Len(matches) = 2
                  /\ matches[1].line_number = 1
                  /\ matches[2].line_number = 3

\* C2 witness: a line matches only after stripping and case folding, inside a
\* window that leaves out another matching line
C2_Witness ==
    /\ stage = "found"
    /\ SearchN = 1
    /\ ~config.case_sensitive
    /\ config.start_line = 2
    /\ Len(matches) = 1
    /\ matches[1].line_number = 2
    /\ matches[1].original_line = <<SP, "A">>
    /\ ContentLines[1] = <<"a">>

\* the replace text as the caller gave it
ReplaceText == Join(config.replace)

\* C3 (as claimed): whenever the stripped search and replacement texts
\* differ, find_matches on the default rendering returns no match.
C3_IdempotentAsClaimed ==
    (stage = "refound" /\ Strip(config.search) # Strip(ReplaceText)) =>
        rematches = <<>>

\* no line of the replacement passes the line comparison with a search line
NoReplacementLineMatches ==
    \A i \in 1..Len(config.replace), k \in 1..SearchN :
        Fold(config.replace[i]) # Fold(SearchLines[k])

\* C3 (amended): when no line of the replacement equals a line of the search
\* text after stripping (and case folding) and no line range is given,
\* find_matches on the default rendering returns no match.
C3_Idempotent ==
    (stage = "refound" /\ WholeFile /\ NoReplacementLineMatches) =>
        rematches = <<>>

\* C3 witness: matches were replaced and the second search finds nothing
C3_Witness ==
    /\ stage = "refound"
    /\ WholeFile
    /\ NoReplacementLineMatches
    /\ config.search # <<>>
    /\ Len(matches) >= 2
    /\ rematches = <<>>

\* the expected output, built front to back over the original lines
RECURSIVE Rebuild(_, _, _)
Rebuild(lines, p, ms) ==
    IF p > Len(lines) THEN <<>>
    ELSE IF ms # <<>> /\ Head(ms).line_number = p
    THEN Head(ms).replacement_lines
             \o Rebuild(lines, p + Len(Split(Head(ms).original_line)), Tail(ms))
    ELSE <<lines[p]>> \o Rebuild(lines, p + 1, ms)

\* C4: the default rendering is the original line sequence with every matched
\* block replaced by its replacement lines and every other line kept in place,
\* also when replacement and block differ in length.
C4_DefaultRendering ==
    (stage \in {"rendered", "refound"}) =>
        rendered = Join(Rebuild(ContentLines, 1, matches))

\* C4 witness: two matches whose replacement is longer than the matched block
C4_Witness ==
    /\ stage = "rendered"
    /\ Len(matches) >= 2
    /\ Len(config.replace) > SearchN
    /\ Split(rendered) # ContentLines

(***************************************************************************)
(* Properties of the write and replace tools on storage (SpecStore).       *)
(* fs0 / dirs0 are the storage when the call started.                      *)
(***************************************************************************)
Affirmative(ans) == ans.kind = "line" /\ Lower(Strip(ans.text)) \in YesWords
Negative(ans)    == ans.kind = "line" /\ Lower(Strip(ans.text)) \in NoWords
Interrupted(ans) == ans.kind \in {"KeyboardInterrupt", "EOFError"}

StorageUnchanged == fs = fs0 /\ dirs = dirs0

\* the call has returned and its writing mode ran: Apply, or a confirmed ask
Applied ==
    /\ pc = "idle"
    /\ \/ call.mode = "apply"
       \/ call.mode = "preview_and_ask" /\ Affirmative(answer)

DefaultOptions == call.backup /\ call.create_dirs

SameAfterNormalization ==
    /\ IsFile(fs0, call.file_path)
    /\ Normalize(fs0[call.file_path]) = Normalize(call.content)

\* C6: an Overwrite whose content equals the existing file content after
\* line-ending normalisation reports zero files changed and leaves storage
\* as it was: no rewrite, no backup.
C6_IdenticalShortCircuit ==
    (call.tool = "write" /\ call.operation = "overwrite" /\ SameAfterNormalization)
    => /\ StorageUnchanged
       /\ result.kind = "WriteResult"
       /\ TotalFilesChanged(result) = 0

\* C6 witness: an Apply of content that differs from the file only by its
\* line endings
C6_Witness ==
    /\ call.tool = "write"
    /\ call.mode = "apply"
    /\ call.operation = "overwrite"
    /\ call.output_style = "default"
    /\ call.backup
    /\ SameAfterNormalization
    /\ fs0[call.file_path] # call.content
    /\ pc = "idle"

\* <name>.backup for k = 0, <name>.backup.k for k >= 1
BackupName(p, k) ==
    Path(p.parent, p.stem,
         p.exts \o (IF k = 0 THEN <<"backup">> ELSE <<"backup", ToString(k)>>))

\* the first k whose backup name is unused in the files
FirstUnused(files, p) ==
    CHOOSE k \in 0..Cardinality(DOMAIN files) :
        /\ BackupName(p, k) \notin DOMAIN files
        /\ \A j \in 0..(k - 1) : BackupName(p, j) \in DOMAIN files

\* a write Apply, default style, no output path, backups on, on an existing
\* target whose content changed
BackedUpWrite ==
    /\ call.tool = "write"
    /\ Applied
    /\ call.output_style = "default"
    /\ call.output_file = NoPath
    /\ call.backup
    /\ IsFile(fs0, call.file_path)
    /\ IsFile(fs, call.file_path)
    /\ fs[call.file_path] # fs0[call.file_path]

\* C7: such a write copies the target's pre-write content to <name>.backup if
\* unused, else to <name>.backup.N for the smallest unused N >= 1; every file
\* that existed before, backups included, keeps its content; the backup holds
\* what the target held immediately before the write.
C7_BackupOnOverwrite ==
    BackedUpWrite =>
        LET b == BackupName(call.file_path, FirstUnused(fs0, call.file_path))
        IN  /\ IsFile(fs, b)
            /\ fs[b] = fs0[call.file_path]
            /\ DOMAIN fs = (DOMAIN fs0) \cup {b}
            /\ \A p \in (DOMAIN fs0) \ {call.file_path} : fs[p] = fs0[p]
            /\ result.file_results[1].backup_path = b

\* C7 witness: .backup and .backup.1 exist, the copy goes to .backup.2
C7_Witness ==
    /\ BackedUpWrite
    /\ FirstUnused(fs0, call.file_path) = 2
    /\ fs[BackupName(call.file_path, 0)] # fs0[call.file_path]

\* what Apply does to the storage the call started from
ApplyOutcomes ==
    IF call.tool = "write"
    THEN { WriteEngineWriteFile(fs0, dirs0, [call EXCEPT !.mode = "apply"]) }
    ELSE { SearchReplaceEngineRun(fs0, dirs0, [call EXCEPT !.mode = "apply"], found) :
           found \in FoundOrders(fs0, dirs0, call) }

\* C8: in mode 'preview_and_ask' (replace and write) storage is untouched
\* until an affirmative answer; an affirmative answer leaves what Apply leaves;
\* a negative answer, Ctrl+C or end of input returns a cancellation message
\* with storage untouched; any other answer asks again.
C8_ConfirmationGate ==
    (call.tool # "none" /\ call.mode = "preview_and_ask") =>
        /\ (pc = "asking" \/ ~Affirmative(answer)) => StorageUnchanged
        /\ (pc = "asking" /\ answer # NoAnswer)
               => ~Affirmative(answer) /\ ~Negative(answer) /\ ~Interrupted(answer)
        /\ (pc = "idle" /\ answer # NoAnswer)
               => Affirmative(answer) \/ Negative(answer) \/ Interrupted(answer)
        /\ (pc = "idle" /\ (Negative(answer) \/ Interrupted(answer)))
               => result.kind = "message"
        /\ (pc = "idle" /\ Affirmative(answer))
               => \E o \in ApplyOutcomes :
                      fs = o.fs /\ dirs = o.dirs /\ result = o.result

\* C8 witness: a confirmed write that changed the target
C8_Witness ==
    /\ call.tool = "write"
    /\ call.mode = "preview_and_ask"
    /\ pc = "idle"
    /\ Affirmative(answer)
    /\ answer.text # <<"y">>
    /\ ~StorageUnchanged

\* C9: a replace or write run with mode 'preview' leaves every file's
\* content and the sets of files and directories as they were.
C9_PreviewTouchesNothing ==
    (call.tool # "none" /\ call.mode = "preview") => StorageUnchanged

\* C9 witness: a write preview of a change whose Apply would create the
\* directory and the file
C9_Witness ==
    /\ call.tool = "write"
    /\ call.mode = "preview"
    /\ call.create_dirs
    /\ dirs0 = {}
    /\ TotalFilesChanged(result) = 1
    /\ pc = "idle"

OriginalText == IF IsFile(fs0, call.file_path) THEN ReadText(fs0, call.file_path) ELSE <<>>
NewText == Normalize(call.content)

LacksTrailingBreak(s) == s = <<>> \/ s[Len(s)] # NL

\* first part, then second part, with one line break between them when `sep`
JoinParts(first, second, sep) == first \o (IF sep THEN <<NL>> ELSE <<>>) \o second

\* the change an Append or Prepend call reports is `text`, and a default-style
\* Apply on the target itself leaves `text` in the file
\* (a cancelled confirmation returns a message instead of a result)
JoinedAs(text) ==
    result.kind = "WriteResult" =>
        /\ Len(result.file_results) = 1
        /\ result.file_results[1].has_record
        /\ result.file_results[1].original_content = OriginalText
        /\ result.file_results[1].new_content = text
        /\ (Applied /\ call.output_style = "default" /\ call.output_file = NoPath
                /\ DefaultOptions /\ text # OriginalText)
               => /\ IsFile(fs, call.file_path)
                  /\ fs[call.file_path] = text

\* C11 (as claimed): Append gives the original followed by the new content
\* with one line break between them whenever the original lacks a trailing
\* line break, Prepend the mirror (new content first).
C11_JoinAsClaimed ==
    /\ (call.tool = "write" /\ call.operation = "append")
           => JoinedAs(JoinParts(OriginalText, NewText, LacksTrailingBreak(OriginalText)))
    /\ (call.tool = "write" /\ call.operation = "prepend")
           => JoinedAs(JoinParts(NewText, OriginalText, LacksTrailingBreak(NewText)))

\* C11 (amended): Append gives the original followed by the new content, with
\* exactly one line break between them iff the original is non-empty and lacks
\* a trailing line break; Prepend gives the new content followed by the
\* original, with one line break between them iff the new content is non-empty
\* and lacks a trailing line break; nothing else is added or removed.
C11_AppendPrependJoin ==
    /\ (call.tool = "write" /\ call.operation = "append")
           => JoinedAs(JoinParts(OriginalText, NewText,
                                 OriginalText # <<>> /\ LacksTrailingBreak(OriginalText)))
    /\ (call.tool = "write" /\ call.operation = "prepend")
           => JoinedAs(JoinParts(NewText, OriginalText,
                                 NewText # <<>> /\ LacksTrailingBreak(NewText)))

\* C11 witness: an applied Append to a file without a trailing line break
C11_Witness ==
    /\ call.tool = "write"
    /\ call.operation = "append"
    /\ Applied
    /\ call.output_style = "default"
    /\ OriginalText # <<>>
    /\ LacksTrailingBreak(OriginalText)
    /\ NewText # <<>>
    /\ fs[call.file_path] = OriginalText \o <<NL>> \o NewText

(***************************************************************************)
(* Properties of the ignore controller (SpecGuard) and of the command      *)
(* executor (SpecExec).                                                    *)
(***************************************************************************)
\* the controller holds the single rule "build/" and validate_access(p) has
\* just returned
AccessChecked(p) ==
    /\ gcall.op = "validate_access"
    /\ ctl.patterns = <<BuildRule>>
    /\ gcall.arg = p

\* C12 (as claimed): with the single rule "build/" loaded,
\* validate_access("build/output.txt") is false, validate_access("src/build/x")
\* is false and validate_access("other/output.txt") is true.
C12_DirectoryRule ==
    /\ AccessChecked(BuildOutput) => gcall.ret = FALSE
    /\ AccessChecked(SrcBuildX)   => gcall.ret = FALSE
    /\ AccessChecked(OtherOutput) => gcall.ret = TRUE

\* a flag token, as the policies describe it
FlagToken(policy, tok) ==
    \/ policy = "unix" /\ tok # <<>> /\ tok[1] = "-"
    \/ policy = "powershell" /\ tok # <<>> /\ tok[1] = SLASH
    \/ policy = "powershell" /\ \E i \in 1..Len(tok) : tok[i] = ":"

LifecycleStates ==
    /\ ctl.loaded <=> gcall.op # "none"
    /\ ~ctl.loaded => ctl.patterns = <<>>
    /\ (gcall.op = "validate_access" /\ ctl.patterns = <<>>) => gcall.ret = TRUE
    /\ (gcall.op = "validate_command" /\ ctl.patterns = <<>>) => gcall.ret = NoneReturned

\* a step never unloads the controller, and the first load of an absent file
\* gives the empty rule set
LifecycleSteps ==
    /\ ctl.loaded => ctl'.loaded
    /\ (~ctl.loaded /\ ctl'.loaded /\ ~ignore_file.exists) => ctl'.patterns = <<>>

\* C14 (as claimed): the controller starts Unloaded, its first use loads it,
\* it never returns to Unloaded, and once Loaded its rule set never changes,
\* whatever is called afterwards and however the ignore file changes.
C14_LifecycleAsClaimed ==
    /\ LifecycleStates
    /\ ctl.loaded => ctl.patterns = first_rules

\* C14 (amended): as above, but once Loaded the rule set changes only by an
\* explicit load(), which reads the ignore file again; validate_access,
\* validate_command and changes of the file leave it alone.
C14_Lifecycle ==
    /\ []LifecycleStates
    /\ [][LifecycleSteps]_vars
    /\ [][(ctl.loaded /\ ctl'.patterns # ctl.patterns)
              => (gcall'.op = "load" /\ ctl'.patterns = LoadPatterns(ignore_file))]_vars

\* C14 witness: the file changed after the first use and a later validation
\* still ran under the rules loaded first
C14_Witness ==
    /\ gsteps = 2
    /\ gcall.op \in {"validate_access", "validate_command"}
    /\ ctl.patterns = first_rules
    /\ ctl.patterns # <<>>
    /\ LoadPatterns(ignore_file) # ctl.patterns

\* what the ignore check of the last run says about its command
RunVerdict ==
    IF xcall.enable_ignore
    THEN ValidateCommand(xcall.shell_policy, LoadPatterns(xignore), xcall.command)
    ELSE NoneReturned

\* C15 (as claimed): when ignore checking is enabled and validate_command
\* returns a blocking argument, run returns a result naming that argument,
\* with exit_code 1, pid none and timed_out false, and spawns nothing; a
\* subprocess is spawned only when ignore checking is disabled or
\* validate_command returned none.
C15_BlockedNeverRuns ==
    (xruns > 0 /\ RunVerdict.kind # "ValueError") =>
        /\ RunVerdict.kind = "arg" =>
               /\ xresult.blocked_by = RunVerdict
               /\ xresult.exit_code = 1
               /\ xresult.pid = None
               /\ xresult.timed_out = FALSE
        /\ xresult.pid # None => RunVerdict = NoneReturned

(***************************************************************************)
(* Properties of the tree of search results (SpecTree).                    *)
(***************************************************************************)
\* the nodes of the tree under `node`, `node` included
RECURSIVE NodesOf(_)
NodesOf(node) ==
    {node} \cup UNION { NodesOf(node.children[k]) : k \in DOMAIN node.children }

\* a node with exactly one child, and that child is not a leaf
SingleDirectoryChild(node) ==
    /\ Cardinality(DOMAIN node.children) = 1
    /\ \A k \in DOMAIN node.children : ~node.children[k].is_leaf

\* the displayed paths of the childless nodes: the names from the root down,
\* joined
RECURSIVE RowPaths(_, _)
RowPaths(prefix, node) ==
    LET here == OsPathJoin(prefix, node.name)
    IN  IF DOMAIN node.children = {} THEN {here}
        ELSE UNION { RowPaths(here, node.children[k]) : k \in DOMAIN node.children }

\* from_paths returned a concentrated tree
Concentrated == tconcentrate /\ tpaths # <<>> /\ troot # AttributeError

\* C16: after concentrate() on the root no node of the tree has exactly one
\* child that is a non-leaf; the merged names are the joined segments and the
\* merged node keeps the children of the last merged node, so the joined
\* paths down to the childless nodes are those of the tree before compression;
\* "a/b/c/file.txt" alone gives one node named "a/b/c" with the single leaf
\* child "file.txt".
C16_TreeCompression ==
    Concentrated =>
        /\ \A node \in NodesOf(troot) : ~SingleDirectoryChild(node)
        /\ RowPaths(<<>>, troot) = RowPaths(<<>>, AddPaths(NoRoot, tpaths))
        /\ tpaths = <<ABCFile>> =>
               /\ troot.name = PathOf(<<"a", "b", "c">>)
               /\ DOMAIN troot.children = {<<"file.txt">>}
               /\ troot.children[<<"file.txt">>].is_leaf
               /\ troot.children[<<"file.txt">>].children = NoChildren

C16_Witness ==
    /\ Concentrated
    /\ tpaths = <<ABCFile>>
    /\ troot.name = PathOf(<<"a", "b", "c">>)

(***************************************************************************)
(* Edge cases of the replace family (SpecMatch, SpecStore).                *)
(***************************************************************************)
\* C17: for every content and line range, find_matches with the search text
\* "" returns no match.
C17_EmptySearchNeverMatches ==
    (stage # "input" /\ config.search = <<>>) => matches = <<>>

\* the target of the replace call was neither a file nor a directory
MissingTarget ==
    /\ call.tool = "replace"
    /\ ~IsFile(fs0, call.file)
    /\ ~IsDir(dirs0, call.file)

\* C18: for every search text, replacement, mode and style, search_and_replace
\* on a path that is neither an existing file nor an existing directory ends in
\* a not-found error (and so returns no per-file results).
C18_MissingTargetNotFound ==
    MissingTarget => result = Raised("FileNotFoundError")

\* C19: replace Apply with the diff style writes the rendered diff of every
\* file with a match to a path with the suffix ".diff" and leaves the content
\* of the file that was searched as it was.
C19_DiffLeavesSearchedFile ==
    (/\ call.tool = "replace"
     /\ Applied
     /\ call.output_style = "git_diff"
     /\ result.kind = "SearchReplaceResult")
    => \A i \in 1..Len(result.file_results) :
           LET fr     == result.file_results[i]
               out    == IF call.output_file # NoPath THEN call.output_file
                         ELSE fr.file_path
               target == WithSuffix(out, <<"diff">>)
           IN  fr.matches # <<>> =>
                   /\ Suffix(target) = <<"diff">>
                   /\ IsFile(fs, target)
                   /\ \E j \in 1..Len(result.file_results) :
                          fs[target] = RFormatGitDiff(result.file_results[j])
                   /\ ReadText(fs, fr.file_path) = ReadText(fs0, fr.file_path)

(***************************************************************************)
(* Properties of the agent's tool-call boundary (SpecAgent).               *)
(***************************************************************************)
\* C20: for every tool call, whatever its tool name and argument string,
\* call_tool completes without raising and has appended one tool message per
\* tool call whose content is a text: the tool's result, or an error text for
\* an unknown tool or a failing call.
C20_CallToolNeverRaises ==
    areturn # NotCalled =>
        /\ areturn.kind = "returned"
        /\ Len(messages) = Len(tool_calls)
        /\ \A i \in 1..Len(messages) :
               /\ messages[i].role = "tool"
               /\ messages[i].name = tool_calls[i].name
               /\ messages[i].content \in Seq(STRING)

(***************************************************************************)
(* Deletion, diff rendering and malformed ranges (SpecMatch).              *)
(***************************************************************************)
\* line p of the content lies in the block of some match
Covered(p) ==
    \E k \in 1..Len(matches) :
        /\ matches[k].line_number <= p
        /\ p < matches[k].line_number + Len(Split(matches[k].original_line))

\* the lines of the content from line p on that no match covers, in order
RECURSIVE UnmatchedFrom(_)
UnmatchedFrom(p) ==
    IF p > Len(ContentLines) THEN <<>>
    ELSE (IF Covered(p) THEN <<>> ELSE <<ContentLines[p]>>) \o UnmatchedFrom(p + 1)

\* C21: with the replacement "" the default rendering holds every unmatched
\* line in order and nothing in place of the matched blocks (its line count is
\* the original count less the matched lines).
C21_EmptyReplacementDeletes ==
    (/\ stage \in {"rendered", "refound"}
     /\ config.search # <<>>
     /\ config.replace = Split(<<>>)
     /\ matches # <<>>)
    => rendered = Join(UnmatchedFrom(1))

(***************************************************************************)
(* Styles and reports of the write family (SpecStore).                     *)
(***************************************************************************)
\* write_file applied a change of the target with the diff style
WroteDiff ==
    /\ call.tool = "write"
    /\ Applied
    /\ call.output_style = "git_diff"
    /\ result.kind = "WriteResult"
    /\ result.file_results # <<>>
    /\ FileHasChange(result.file_results[1])
    /\ result.file_results[1].success

\* C22: write-family Apply with the diff style writes the diff text to a path
\* with the suffix ".diff"; the target file does not end up holding the diff
\* text in place of its content.
C22_WriteDiffSuffix ==
    WroteDiff =>
        LET fr    == result.file_results[1]
            out   == IF call.output_file # NoPath THEN call.output_file
                     ELSE call.file_path
            diff  == WFormatGitDiff(fs0, dirs0, fr)
            dpath == WithSuffix(out, <<"diff">>)
        IN  /\ IsFile(fs, dpath)
            /\ fs[dpath] = diff
            /\ ~(IsFile(fs, call.file_path) /\ fs[call.file_path] = diff)

(***************************************************************************)
(* Diff rendering and the files Apply writes in the replace family         *)
(* (SpecStore).                                                            *)
(***************************************************************************)
\* the hunks the diff rendering is said to hold: per match the hunk header,
\* one "-" line per original line and one "+" line per replacement line
RECURSIVE HunksAsClaimed(_)
HunksAsClaimed(ms) ==
    IF ms = <<>> THEN <<>>
    ELSE LET m == Head(ms)
             start == ToString(m.line_number)
         IN  << <<"@@ -", start, ",1 +", start, ",",
                  ToString(Len(m.replacement_lines)), " @@">> >>
             \o PrefixLines("-", Split(m.original_line))
             \o PrefixLines("+", m.replacement_lines)
             \o HunksAsClaimed(Tail(ms))

\* a replace call was applied with the diff style
AppliedDiff ==
    /\ call.tool = "replace"
    /\ Applied
    /\ call.output_style = "git_diff"
    /\ result.kind = "SearchReplaceResult"

\* C23: for a file with matches format_git_diff emits the header block and
\* then, per match in match order, the hunk header "@@ -start,1 +start,R @@",
\* one "-" line for each original matched line and one "+" line for each
\* replacement line; every line after the header is a hunk header or starts
\* with "-" or "+".
C23_DiffRendering ==
    AppliedDiff =>
        \A i \in 1..Len(result.file_results) :
            LET fr    == result.file_results[i]
                lines == Split(RFormatGitDiff(fr))
            IN  fr.matches # <<>> =>
                    /\ Len(lines) > 4
                    /\ SubSeq(lines, 5, Len(lines)) = HunksAsClaimed(fr.matches)
                    /\ \A k \in 5..Len(lines) :
                           lines[k] # <<>> /\ lines[k][1] \in {"@@ -", "-", "+"}

ListingLines ==
    LET l == Split(listing) IN SubSeq(l, 1, Len(l) - 1)

IsNote(line) == \E k \in 1..Len(line) : line[k] = " more matches hidden]"

\* the number of match lines printed
Printed == Cardinality({ k \in 1..Len(ListingLines) : ~IsNote(ListingLines[k]) })

Notes == { k \in 1..Len(ListingLines) : IsNote(ListingLines[k]) }

\* C25: for every file result and every max_matches_per_file >= 0,
\* format_matches prints at most max_matches_per_file match lines, and prints
\* the truncation note iff the file has more matches than that, the hidden
\* count of the note being the number of matches not printed.
C25_ListingBound ==
    listing # NoListing =>
        LET n  == Len(lcall.matches)
            mx == lcall.max_matches_per_file
        IN  /\ Printed <= mx
            /\ (Notes # {}) <=> (n > mx)
            /\ \A k \in Notes :
                   \E i \in 1..Len(ListingLines[k]) :
                       ListingLines[k][i] = ToString(n - Printed)

(***************************************************************************)
(* Insertion into the tree of search results and what compression keeps    *)
(* (SpecTree).                                                             *)
(***************************************************************************)
NoNode == [none |-> TRUE]

\* the node reached from `node` by walking the components `parts`
RECURSIVE WalkTo(_, _)
WalkTo(node, parts) ==
    IF parts = <<>> THEN node
    ELSE IF Head(parts) \in DOMAIN node.children
    THEN WalkTo(node.children[Head(parts)], Tail(parts))
    ELSE NoNode

\* the node of a path: the root stands for the first component when it bears
\* its name
NodeOfPath(root, path) ==
    LET parts == PathParts(path)
    IN  WalkTo(root, IF Head(parts) = root.name THEN Tail(parts) ELSE parts)

\* from_paths returned the tree as inserted, not concentrated
Inserted == ~tconcentrate /\ tpaths # <<>>

\* C26: after inserting any sequence of results by path, every inserted result
\* is attached to the node reached by walking its path components, that node
\* is marked leaf, and no non-leaf node carries a result; also when a path is a
\* single component or a prefix of another inserted path.
C26_InsertionInvariant ==
    Inserted =>
        /\ \A i \in 1..Len(tpaths) :
               LET node == NodeOfPath(troot, tpaths[i])
               IN  /\ node # NoNode
                   /\ node.is_leaf
                   /\ node.meta = tpaths[i]
        /\ \A node \in NodesOf(troot) : node.meta # <<>> => node.is_leaf

\* the leaves under `node` with the path joined from the names down to them
\* and the result attached to them
RECURSIVE LeafRows(_, _)
LeafRows(prefix, node) ==
    LET here == OsPathJoin(prefix, node.name)
    IN  (IF node.is_leaf THEN { <<here, node.meta>> } ELSE {})
        \cup UNION { LeafRows(here, node.children[k]) : k \in DOMAIN node.children }

\* C29: concentrate() adds and removes no leaf; for every leaf the path joined
\* from the node names from the root down to it is the same before and after
\* compression, and the result attached to it is unchanged.
C29_CompressionPreservesLeaves ==
    Concentrated =>
        LeafRows(<<>>, troot) = LeafRows(<<>>, AddPaths(NoRoot, tpaths))

\* write_file in Apply mode wrote its target with success
WriteSucceeded ==
    /\ call.tool = "write"
    /\ Applied
    /\ call.output_file = NoPath
    /\ result.kind = "WriteResult"
    /\ result.file_results # <<>>
    /\ FileHasChange(result.file_results[1])
    /\ result.file_results[1].success

\* C28: after write_file in Apply mode succeeds on a path that did not exist
\* before the call, the returned WriteResult reports that file as created
\* (total_files_created = 1, operation_type "created"); for a path that
\* existed before the call it reports total_files_created = 0.
C28_CreatedFileReport ==
    WriteSucceeded =>
        IF Exists(fs0, dirs0, call.file_path)
        THEN TotalFilesCreated(fs, dirs, result) = 0
        ELSE /\ TotalFilesCreated(fs, dirs, result) = 1
             /\ OperationType(fs, dirs, result.file_results[1]) = "created"

\* a replace call was applied and returned its result
ReplaceApplied ==
    /\ call.tool = "replace"
    /\ Applied
    /\ result.kind = "SearchReplaceResult"

\* the file results with and without a match
WithMatch    == { i \in 1..Len(result.file_results) : result.file_results[i].matches # <<>> }
WithoutMatch == { i \in 1..Len(result.file_results) : result.file_results[i].matches = <<>> }

HasMatches(fr) == fr.matches # <<>>

\* the path Apply writes for the file result fr
WriteTarget(fr) ==
    LET out == IF call.output_file # NoPath THEN call.output_file ELSE fr.file_path
    IN  IF call.output_style = "git_diff" THEN WithSuffix(out, <<"diff">>) ELSE out

\* the paths whose content differs from the one before the call
Written == { p \in DOMAIN fs : ~IsFile(fs0, p) \/ fs[p] # fs0[p] }

\* C27 (as claimed): every file with zero matches keeps its content, and when
\* no file matches storage is entirely unchanged.
C27_ZeroMatchFilesKeepContent ==
    ReplaceApplied =>
        /\ \A i \in WithoutMatch :
               LET p == result.file_results[i].file_path
               IN  IsFile(fs, p) /\ fs[p] = fs0[p]
        /\ WithMatch = {} => StorageUnchanged

\* C27: replace Apply writes only for the files with a match: whatever it
\* writes goes to the output path of a file with a match (the file itself, the
\* output_file, or that path with the suffix ".diff" for the diff style), and
\* storage ends as it would had the files with zero matches not been found: a
\* file with zero matches is never the source of a write and keeps its content
\* unless it is such an output path; when no file matches storage is entirely
\* unchanged.
C27_WritesOnlyForMatches ==
    ReplaceApplied =>
        /\ DOMAIN fs0 \subseteq DOMAIN fs
        /\ dirs = dirs0
        /\ \A p \in Written :
               \E i \in WithMatch : p = WriteTarget(result.file_results[i])
        /\ fs = RHandleApply(fs0, dirs0, call, SelectSeq(result.file_results, HasMatches))
        /\ \A i \in WithoutMatch :
               LET p == result.file_results[i].file_path
               IN  p \notin { WriteTarget(result.file_results[j]) : j \in WithMatch }
                       => fs[p] = fs0[p]
        /\ WithMatch = {} => StorageUnchanged

\* C27 witness: a directory with a file that matches and one that does not;
\* the first is rewritten, the second keeps its content
C27_Witness ==
    /\ ReplaceApplied
    /\ call.output_style = "default"
    /\ WithMatch # {}
    /\ Written # {}
    /\ \E i \in WithoutMatch :
           LET p == result.file_results[i].file_path
           IN  p \notin Written /\ fs[p] = fs0[p]

(***************************************************************************)
(* The order of requests and tool messages in complete() (SpecAgent).      *)
(***************************************************************************)
\* the positions of the assistant messages
AssistantAt == { k \in 1..Len(messages) : messages[k].role = "assistant" }

\* the tool messages of the assistant message at k follow it, one per call in
\* the order of the calls, with the call's id and tool name
ToolMessagesFollow(k) ==
    LET calls == messages[k].tool_calls
    IN  /\ k + Len(calls) <= Len(messages)
        /\ \A i \in 1..Len(calls) :
               /\ messages[k + i].role = "tool"
               /\ messages[k + i].tool_call_id = calls[i].id
               /\ messages[k + i].name = calls[i].name

\* C30: once complete() has run, every assistant message with tool calls is
\* followed by exactly one tool message per call, in the order of the calls,
\* with that call's id and tool name; every request but the first was made
\* with the tool messages of the assistant message before it in place; and
\* an assistant message without tool calls ends complete() with no further
\* request.
C30_ToolCallProtocol ==
    apc # "idle" =>
        /\ apc \in {"completing", "returned"}
        /\ Len(requests) = Cardinality(AssistantAt)
        /\ \A k \in AssistantAt :
               /\ ToolMessagesFollow(k)
               /\ k + Len(messages[k].tool_calls) < Len(messages)
                      => messages[k + Len(messages[k].tool_calls) + 1].role = "assistant"
               /\ messages[k].tool_calls = <<>> => k = Len(messages) /\ apc = "returned"
        /\ \A j \in 2..Len(requests) :
               LET r == requests[j]
                   p == Len(requests[j - 1]) + 1
               IN  /\ r = SubSeq(messages, 1, Len(r))
                   /\ Len(r) = p + Len(messages[p].tool_calls)
                   /\ messages[p].tool_calls # <<>>

====
